---- MODULE Spec2Model ----
(***************************************************************************)
(* Model of the check-in store of heliotrip/checkin: the two database      *)
(* adapters (SQLiteAdapter, AzureSQLAdapter) and the Express routes of     *)
(* server/index.js that call them.                                         *)
(*                                                                         *)
(* A request occupies a slot of `calls` from the moment its route handler  *)
(* runs until its response has been consumed (Retire).  The SQLite adapter *)
(* shares ONE connection between all requests: statements wait in the      *)
(* connection's queue (`queue`) and, for a prepared statement, in the      *)
(* statement's own queue (the call's pc/n fields).  The Azure adapter      *)
(* gives every request its own pooled connection; statements of different  *)
(* requests interleave on the server and block on row locks.               *)
(***************************************************************************)
EXTENDS Integers, Sequences, FiniteSets, TLC

VARIABLES
  adapter,    \* "sqlite" | "azure": the adapter DatabaseFactory.create() chose
  alive,      \* the node process is running
  table,      \* rows of `checkins` in rowid order, uncommitted changes included
  inTxn,      \* SQLite connection: a transaction is open
  txnBackup,  \* SQLite connection: the table as of BEGIN (the rollback journal)
  queue,      \* SQLite connection: statements scheduled and not yet run
  calls,      \* the requests in flight or answered, by slot
  nextId,     \* the next value uuidv4() returns
  now,        \* the database clock (CURRENT_TIMESTAMP / GETDATE())
  env,        \* process.env: the AZURE_SQL_* settings and NODE_ENV
  server,     \* server/index.js: isDbReady, isDbInitializing, the adapter's handle
  editor,     \* client/src/DataEditor.js: the component's state
  http,       \* server/index.js: one request on its way through the middleware
  page        \* client/src/CheckinPage.js: the component's state and its requests

vars == <<adapter, alive, table, inTxn, txnBackup, queue, calls, nextId, now,
          env, server, editor, http, page>>

----------------------------------------------------------------------------
(* Bounds *)

MaxCalls == 2     \* requests in flight at once under SpecConcurrent
MaxRows  == 2     \* rows in one bulk payload
MaxId    == 3     \* uuidv4() values handed out in one behaviour
MaxClock == 1     \* ticks of the database clock

----------------------------------------------------------------------------
(* Data *)

Users == {"u1", "u2"}

\* Calendar dates <<month, day>> of one year; the text 'YYYY-MM-DD' of a date
\* is ordered field by field.
Dates == {<<1, 31>>, <<2, 1>>}

NoDate == <<0, 0>>

\* undefined / NULL
Null == -1

Ratings(a, b, c, d, e) ==
  [overall |-> a, wellbeing |-> b, growth |-> c, relationships |-> d, impact |-> e]

NoValues == Ratings(Null, Null, Null, Null, Null)

\* rating objects a client may send: two valid ones, one out of range, one
\* with a field missing
ValidValues == {Ratings(1, 2, 3, 4, 5), Ratings(10, 9, 8, 7, 6)}
BadValues   == {Ratings(11, 5, 5, 5, 5), Ratings(5, 5, Null, 5, 5)}
AnyValues   == ValidValues \cup BadValues

\* the rating objects of bulk rows: a valid one and the two bad ones
BulkValues  == {Ratings(1, 2, 3, 4, 5)} \cup BadValues

RatingKeys == {"overall", "wellbeing", "growth", "relationships", "impact"}

Row(id, u, d, v, t) ==
  [id |-> id, user_id |-> u, date |-> d,
   overall |-> v.overall, wellbeing |-> v.wellbeing, growth |-> v.growth,
   relationships |-> v.relationships, impact |-> v.impact, created_at |-> t]

NoRow == Row(0, "", NoDate, NoValues, Null)

ValuesOf(r) ==
  Ratings(r.overall, r.wellbeing, r.growth, r.relationships, r.impact)

\* one element of the `data` array of a bulk request
PayloadRow(d, v) == [date |-> d, values |-> v]

PayloadsOver(rows) == UNION {[1..n -> rows] : n \in 0..MaxRows}

Range(s) == {s[i] : i \in 1..Len(s)}

----------------------------------------------------------------------------
(* Dates as text and as the DATE type *)

\* 'YYYY-MM-DD' compared as text (SQLite: date TEXT ... ORDER BY date ASC)
DateLess(a, b) == a[1] < b[1] \/ (a[1] = b[1] /\ a[2] < b[2])

\* TLC's integers are 32 bits wide: the time value is kept in seconds
SecPerDay == 24 * 60 * 60

DaysInMonth == <<31, 28, 31, 30, 31, 30, 31, 31, 30, 31, 30, 31>>

RECURSIVE DaysBefore(_)
DaysBefore(m) == IF m <= 1 THEN 0 ELSE DaysBefore(m - 1) + DaysInMonth[m - 1]

\* .input('date', sql.Date, date): the text becomes a Date at 00:00 UTC,
\* here in seconds since 1 January
ToSqlDate(d) == (DaysBefore(d[1]) + d[2] - 1) * SecPerDay

RECURSIVE MonthOfDay(_, _)
MonthOfDay(day, m) ==
  IF m >= 12 \/ day < DaysInMonth[m] THEN <<m, day + 1>>
  ELSE MonthOfDay(day - DaysInMonth[m], m + 1)

\* row.date.toISOString().split('T')[0]
ToISODate(t) == MonthOfDay(t \div SecPerDay, 1)

\* the value of the date column for the date text d: TEXT in SQLite, DATE in
\* Azure SQL
Stored(d) == IF adapter = "sqlite" THEN d ELSE ToSqlDate(d)

\* ascending order of the date column
ColumnLess(a, b) == IF adapter = "sqlite" THEN DateLess(a, b) ELSE a < b

----------------------------------------------------------------------------
(* The checkins table *)

OwnerRows(t, u) == SelectSeq(t, LAMBDA r : r.user_id = u)

KeyRows(t, u, col) == SelectSeq(t, LAMBDA r : r.user_id = u /\ r.date = col)

\* position of the least date of a non-empty sequence (first one on ties)
RECURSIVE MinPos(_, _, _)
MinPos(s, i, best) ==
  IF i > Len(s) THEN best
  ELSE MinPos(s, i + 1, IF ColumnLess(s[i].date, s[best].date) THEN i ELSE best)

RemoveAt(s, i) == SubSeq(s, 1, i - 1) \o SubSeq(s, i + 1, Len(s))

\* no ORDER BY: the rows come back in rowid order
OrderByRowid(s) == s

\* ORDER BY date ASC
RECURSIVE OrderByDate(_)
OrderByDate(s) ==
  IF s = <<>> THEN <<>>
  ELSE LET i == MinPos(s, 1, 1) IN <<s[i]>> \o OrderByDate(RemoveAt(s, i))

\* NOT NULL on the five ratings (a date is always given in this model)
NotNullOk(r) ==
  /\ r.overall # Null /\ r.wellbeing # Null /\ r.growth # Null
  /\ r.relationships # Null /\ r.impact # Null

\* PRIMARY KEY (id) alone, the table declared without UNIQUE (user_id, date)
ConflictsOnId(t, r) == \E i \in 1..Len(t) : t[i].id = r.id

\* PRIMARY KEY (id) and UNIQUE (user_id, date)
Conflicts(t, r) ==
  \E i \in 1..Len(t) :
    t[i].id = r.id \/ (t[i].user_id = r.user_id /\ t[i].date = r.date)

\* INSERT INTO checkins (...) VALUES (...): "ok" and the new table, or the
\* constraint that failed and the table unchanged; created_at takes its default
Insert(t, r, clock) ==
  IF ~NotNullOk(r) THEN [err |-> "NOTNULL", table |-> t]
  ELSE IF Conflicts(t, r) THEN [err |-> "UNIQUE", table |-> t]
  ELSE [err |-> "ok", table |-> Append(t, [r EXCEPT !.created_at = clock])]

\* INSERT OR IGNORE INTO checkins (...): a row in conflict stays and the new
\* row is skipped without an error
InsertOrIgnore(t, r, clock) ==
  IF ~NotNullOk(r) THEN [err |-> "NOTNULL", table |-> t]
  ELSE IF \E i \in 1..Len(t) :
            t[i].id = r.id \/ (t[i].user_id = r.user_id /\ t[i].date = r.date)
  THEN [err |-> "ok", table |-> t]
  ELSE [err |-> "ok", table |-> Append(t, [r EXCEPT !.created_at = clock])]

\* INSERT OR REPLACE INTO checkins (...): the rows in conflict are deleted,
\* then the new row is inserted, created_at taking its default again
InsertOrReplace(t, r, clock) ==
  IF ~NotNullOk(r) THEN [err |-> "NOTNULL", table |-> t]
  ELSE [err |-> "ok",
        table |-> Append(SelectSeq(t, LAMBDA x :
                            ~(x.id = r.id \/ (x.user_id = r.user_id /\ x.date = r.date))),
                         [r EXCEPT !.created_at = clock])]

\* MERGE ... WHEN MATCHED THEN UPDATE SET overall = ..., impact = ...
UpdateRatings(t, u, col, v) ==
  [i \in 1..Len(t) |->
     IF t[i].user_id = u /\ t[i].date = col
     THEN [t[i] EXCEPT !.overall = v.overall, !.wellbeing = v.wellbeing,
                       !.growth = v.growth, !.relationships = v.relationships,
                       !.impact = v.impact]
     ELSE t[i]]

\* DELETE FROM checkins WHERE user_id = ?
DeleteOwner(t, u) == SelectSeq(t, LAMBDA r : r.user_id # u)

\* row => ({ id: row.id, ..., date: row.date.toISOString().split('T')[0], ... })
AzureRecord(r) == [r EXCEPT !.date = ToISODate(r.date)]

----------------------------------------------------------------------------
(* Requests *)

\* a free slot
IdleCall ==
  [route |-> "none", userId |-> "", date |-> NoDate, values |-> NoValues,
   rows |-> <<>>, ids |-> <<>>, pc |-> "done", n |-> 0, undo |-> <<>>,
   state |-> "idle", rec |-> NoRow, list |-> <<>>, count |-> 0, err |-> "",
   status |-> 0]

\* a request whose handler has called the adapter: the promise is pending
NewCall(route, u, d, v, rows, ids, pc) ==
  [IdleCall EXCEPT !.route = route, !.userId = u, !.date = d, !.values = v,
                   !.rows = rows, !.ids = ids, !.pc = pc, !.state = "pending"]

\* the status the route handler answers with once the adapter's promise has
\* resolved (res.json / res.status(201).json) or rejected (the catch block)
StatusOf(route, ok) ==
  IF ~ok THEN 500 ELSE IF route = "POST" THEN 201 ELSE 200

\* a lookup that treats "no such record" as a failure: the promise rejects
\* and the route answers with its error status
ResolveOrNotFound(call, rec, list, count) ==
  IF call.state # "pending" THEN call
  ELSE IF call.route = "GET_ONE" /\ rec = NoRow
  THEN [call EXCEPT !.state = "rejected", !.err = "NOT_FOUND",
                    !.status = StatusOf(call.route, FALSE)]
  ELSE [call EXCEPT !.state = "resolved", !.rec = rec, !.list = list,
                    !.count = count, !.status = StatusOf(call.route, TRUE)]

\* resolve(...) / reject(err): a promise settles once, later calls are no-ops
Resolve(call, rec, list, count) ==
  IF call.state # "pending" THEN call
  ELSE [call EXCEPT !.state = "resolved", !.rec = rec, !.list = list,
                    !.count = count, !.status = StatusOf(call.route, TRUE)]

Reject(call, err) ==
  IF call.state # "pending" THEN call
  ELSE [call EXCEPT !.state = "rejected", !.err = err,
                    !.status = StatusOf(call.route, FALSE)]

\* a handler that answers 400 without calling the adapter
Answered(route, status) ==
  [IdleCall EXCEPT !.route = route, !.state = "answered", !.status = status]

Slots == DOMAIN calls

Free(c) == calls[c].state = "idle"

FreshIds(k) == [i \in 1..k |-> nextId + i - 1]

\* the object createOrUpdateCheckin returns: { id, userId, date, ...values }
Returned(call) == Row(call.ids[1], call.userId, call.date, call.values, Null)

\* the row createOrUpdateCheckin binds to its statement
UpsertRow(call) ==
  Row(call.ids[1], call.userId, Stored(call.date), call.values, Null)

\* the k-th row bulkReplaceCheckins binds to its INSERT, with id `id`
BulkRow(call, k, id) ==
  Row(id, call.userId, Stored(call.rows[k].date), call.rows[k].values, Null)

----------------------------------------------------------------------------
(* SQLiteAdapter: what each method schedules on the shared connection *)

Stmt(kind, c, exclusive) == [kind |-> kind, call |-> c, exclusive |-> exclusive]

\* this.db.all('SELECT * ... ORDER BY date ASC')
SQLiteAdapter_getCheckins(c) == <<Stmt("all", c, FALSE)>>

\* this.db.get('SELECT * ... WHERE user_id = ? AND date = ?')
SQLiteAdapter_getCheckin(c) == <<Stmt("get", c, FALSE)>>

\* this.db.run('INSERT OR REPLACE ...')
SQLiteAdapter_createOrUpdateCheckin(c) == <<Stmt("upsert", c, FALSE)>>

\* this.db.serialize(() => { run BEGIN; run DELETE; prepare; stmt.run ...;
\* stmt.finalize }): BEGIN, DELETE and the prepare are scheduled in serialized
\* mode; the stmt.run calls and the finalize wait in the statement's queue
SQLiteAdapter_bulkReplaceCheckins(c) ==
  <<Stmt("begin", c, TRUE), Stmt("txdelete", c, TRUE), Stmt("prepare", c, TRUE)>>

\* this.db.run('DELETE FROM checkins WHERE user_id = ?')
SQLiteAdapter_deleteAllCheckins(c) == <<Stmt("delete", c, FALSE)>>

----------------------------------------------------------------------------
(* Route handlers of server/index.js *)

\* the adapter call of a handler: the SQLite adapter schedules statements,
\* the Azure adapter starts its first await
CallAdapter(c, call, stmts) ==
  /\ calls' = [calls EXCEPT ![c] = call]
  /\ queue' = IF adapter = "sqlite" THEN queue \o stmts ELSE queue

\* typeof value !== 'number' || !Number.isInteger(value) || value < 1 || value > 10
InvalidRating(value) == value = Null \/ value < 1 \/ value > 10

\* GET /api/checkins/:userId
GetCheckinsRoute(c, u) ==
  /\ alive /\ Free(c)
  /\ CallAdapter(c, NewCall("GET_LIST", u, NoDate, NoValues, <<>>, <<>>, "run"),
                 SQLiteAdapter_getCheckins(c))
  /\ UNCHANGED <<env, server, editor, http, page, adapter, alive, table, inTxn, txnBackup, nextId, now>>

\* GET /api/checkins/:userId/:date
GetCheckinRoute(c, u, d) ==
  /\ alive /\ Free(c)
  /\ CallAdapter(c, NewCall("GET_ONE", u, d, NoValues, <<>>, <<>>, "run"),
                 SQLiteAdapter_getCheckin(c))
  /\ UNCHANGED <<env, server, editor, http, page, adapter, alive, table, inTxn, txnBackup, nextId, now>>

\* POST /api/checkins
PostCheckins(c, u, d, v) ==
  /\ alive /\ Free(c)
  /\ IF \/ v.overall = Null \/ v.wellbeing = Null \/ v.growth = Null
        \/ v.relationships = Null \/ v.impact = Null
     THEN \* Missing required fields
          /\ calls' = [calls EXCEPT ![c] = Answered("POST", 400)]
          /\ UNCHANGED <<queue, nextId>>
     ELSE IF \E k \in RatingKeys : InvalidRating(v[k])
     THEN \* Invalid ... value. Must be an integer between 1 and 10.
          /\ calls' = [calls EXCEPT ![c] = Answered("POST", 400)]
          /\ UNCHANGED <<queue, nextId>>
     ELSE /\ nextId <= MaxId
          /\ CallAdapter(c, NewCall("POST", u, d, v, <<>>, FreshIds(1), "run"),
                         SQLiteAdapter_createOrUpdateCheckin(c))
          /\ nextId' = nextId + 1
  /\ UNCHANGED <<env, server, editor, http, page, adapter, alive, table, inTxn, txnBackup, now>>

\* PUT /api/checkins/:userId/bulk
PutBulk(c, u, isArray, data) ==
  /\ alive /\ Free(c)
  /\ IF ~isArray
     THEN \* Data must be an array
          /\ calls' = [calls EXCEPT ![c] = Answered("PUT_BULK", 400)]
          /\ UNCHANGED <<queue, nextId>>
     ELSE /\ nextId + Len(data) - 1 <= MaxId
          /\ IF adapter = "sqlite"
             THEN \* uuidv4() is evaluated for every row inside the call
                  /\ CallAdapter(c, NewCall("PUT_BULK", u, NoDate, NoValues, data,
                                            FreshIds(Len(data)), "queued"),
                                 SQLiteAdapter_bulkReplaceCheckins(c))
                  /\ nextId' = nextId + Len(data)
             ELSE \* new sql.Transaction(this.pool); await transaction.begin()
                  /\ CallAdapter(c, NewCall("PUT_BULK", u, NoDate, NoValues, data,
                                            <<>>, "delete"), <<>>)
                  /\ UNCHANGED nextId
  /\ UNCHANGED <<env, server, editor, http, page, adapter, alive, table, inTxn, txnBackup, now>>

\* DELETE /api/checkins/:userId/bulk
DeleteBulk(c, u) ==
  /\ alive /\ Free(c)
  /\ CallAdapter(c, NewCall("DELETE_BULK", u, NoDate, NoValues, <<>>, <<>>, "run"),
                 SQLiteAdapter_deleteAllCheckins(c))
  /\ UNCHANGED <<env, server, editor, http, page, adapter, alive, table, inTxn, txnBackup, nextId, now>>

\* the client has read the response; the slot is free again
Retire(c) ==
  /\ calls[c].state \in {"resolved", "rejected", "answered"}
  /\ calls[c].pc = "done"
  /\ calls' = [calls EXCEPT ![c] = IdleCall]
  /\ UNCHANGED <<env, server, editor, http, page, adapter, alive, table, inTxn, txnBackup, queue, nextId, now>>

\* the database clock advances
Tick ==
  /\ now < MaxClock
  /\ now' = now + 1
  /\ UNCHANGED <<env, server, editor, http, page, adapter, alive, table, inTxn, txnBackup, queue, calls, nextId>>

----------------------------------------------------------------------------
(* What the connections see *)

\* SQLite: what a process that opens the database file afresh would read: an
\* open transaction is rolled back from the journal
SqliteCommitted == IF inTxn THEN txnBackup ELSE table

\* Azure SQL: the bulk transactions that have run their DELETE and have
\* neither committed nor rolled back
AzureOpen(cs) ==
  {c \in DOMAIN cs : cs[c].route = "PUT_BULK" /\ cs[c].pc = "insert"}

RECURSIVE AzureUndo(_, _)
AzureUndo(cs, c) ==
  IF c = 0 THEN <<>>
  ELSE AzureUndo(cs, c - 1) \o (IF c \in AzureOpen(cs) THEN cs[c].undo ELSE <<>>)

\* Azure SQL: the committed rows, which is what a statement outside the
\* transaction reads (READ_COMMITTED_SNAPSHOT is on in Azure SQL Database)
AzureCommitted(t, cs) ==
  SelectSeq(t, LAMBDA r : \A c \in AzureOpen(cs) : r.id \notin Range(cs[c].ids))
    \o AzureUndo(cs, Len(cs))

\* Azure SQL: the keys transaction c holds exclusive locks on: the rows it
\* deleted and the rows it inserted
AzureLocks(c) ==
  {<<r.user_id, r.date>> : r \in Range(calls[c].undo)}
    \cup {<<r.user_id, r.date>> :
            r \in {x \in Range(table) : x.id \in Range(calls[c].ids)}}

AzureHolders(c, keys) ==
  {o \in AzureOpen(calls) \ {c} : AzureLocks(o) \cap keys # {}}

OwnerKeys(u) == {<<u, Stored(d)>> : d \in Dates}

\* getCheckins(userId) as the adapter computes it on table t
GetList(t, cs, u) ==
  IF adapter = "sqlite" THEN OrderByDate(OwnerRows(t, u))
  ELSE LET rows == OrderByDate(OwnerRows(AzureCommitted(t, cs), u))
       IN [i \in 1..Len(rows) |-> AzureRecord(rows[i])]

\* getCheckin(userId, date) as the adapter computes it on table t
GetOne(t, cs, u, d) ==
  IF adapter = "sqlite"
  THEN LET rows == KeyRows(t, u, d)
       IN IF rows = <<>> THEN NoRow ELSE rows[1]
  ELSE LET rows == KeyRows(AzureCommitted(t, cs), u, ToSqlDate(d))
       IN IF rows = <<>> THEN NoRow ELSE AzureRecord(rows[1])

----------------------------------------------------------------------------
(* The SQLite connection (one per process, shared by all requests) *)

\* the effect of running one scheduled statement and its callback:
\*   push   statements the callback schedules
\*   event  the statement failed and has no callback: 'error' is emitted
Effect(t, txn, backup, push, call, event) ==
  [table |-> t, inTxn |-> txn, txnBackup |-> backup, push |-> push,
   call |-> call, event |-> event]

NoEffect(call) == Effect(table, inTxn, txnBackup, <<>>, call, FALSE)

SqliteExec(s) ==
  LET c == s.call
      call == calls[c]
      u == call.userId
      done == [call EXCEPT !.pc = "done"]
  IN
  CASE s.kind = "all" ->
         NoEffect(Resolve(done, NoRow, GetList(table, calls, u), 0))
    [] s.kind = "get" ->
         NoEffect(Resolve(done, GetOne(table, calls, u, call.date), <<>>, 0))
    [] s.kind = "upsert" ->
         LET r == InsertOrReplace(table, UpsertRow(call), now)
         IN IF r.err = "ok"
            THEN Effect(r.table, inTxn, txnBackup, <<>>,
                        Resolve(done, Returned(call), <<>>, 0), FALSE)
            ELSE NoEffect(Reject(done, "SQLITE_CONSTRAINT"))
    [] s.kind = "delete" ->
         \* resolve({ deleted: this.changes })
         Effect(DeleteOwner(table, u), inTxn, txnBackup, <<>>,
                Resolve(done, NoRow, <<>>, Len(OwnerRows(table, u))), FALSE)
    [] s.kind = "begin" ->
         \* run('BEGIN TRANSACTION') has no callback
         IF inTxn THEN Effect(table, inTxn, txnBackup, <<>>, call, TRUE)
         ELSE Effect(table, TRUE, table, <<>>, call, FALSE)
    [] s.kind = "txdelete" ->
         Effect(DeleteOwner(table, u), inTxn, txnBackup, <<>>, call, FALSE)
    [] s.kind = "prepare" ->
         NoEffect([call EXCEPT !.pc = "stmt"])
    [] s.kind = "rollback" ->
         \* run('ROLLBACK') has no callback; it ends whatever transaction
         \* is open on the connection
         IF inTxn THEN Effect(txnBackup, FALSE, <<>>, <<>>, call, FALSE)
         ELSE Effect(table, inTxn, txnBackup, <<>>, call, TRUE)
    [] s.kind = "commit" ->
         IF inTxn
         THEN \* resolve({ inserted: checkinData.length })
              Effect(table, FALSE, <<>>, <<>>,
                     Resolve(done, NoRow, <<>>, Len(call.rows)), FALSE)
         ELSE \* cannot commit - no transaction is active
              NoEffect(Reject(done, "SQLITE_ERROR"))

\* process.on('uncaughtException', ...) -> process.exit(1): every request in
\* flight is dropped, the open transaction never commits
ProcessExit ==
  /\ alive' = FALSE
  /\ table' = SqliteCommitted
  /\ inTxn' = FALSE
  /\ txnBackup' = <<>>
  /\ queue' = <<>>
  /\ calls' = [c \in Slots |->
                 IF calls[c].state = "pending"
                 THEN [calls[c] EXCEPT !.state = "lost", !.pc = "done"]
                 ELSE [calls[c] EXCEPT !.pc = "done"]]

Apply(c, e, rest) ==
  /\ table' = e.table
  /\ inTxn' = e.inTxn
  /\ txnBackup' = e.txnBackup
  /\ queue' = rest \o e.push
  /\ calls' = [calls EXCEPT ![c] = e.call]
  /\ alive' = alive

\* A failed statement without a callback emits 'error' on an emitter nobody
\* listens to.  Depending on how the sqlite3 binding delivers the throw, the
\* exception reaches process.on('uncaughtException') (fatal) or is dropped.
Outcome(c, e, rest, fatal) ==
  /\ fatal => e.event
  /\ IF fatal THEN ProcessExit ELSE Apply(c, e, rest)

\* a prepared statement has runs or its finalize waiting: the connection
\* stays locked by the serialized prepare and has work pending
StmtBusy == \E c \in Slots : calls[c].pc = "stmt"

\* Database::Schedule with nothing pending starts the statement at once,
\* ahead of the serialized statements that wait in the queue
RECURSIVE ScheduleNow(_, _)
ScheduleNow(q, s) ==
  IF q = <<>> \/ Head(q).exclusive THEN <<s>> \o q
  ELSE <<Head(q)>> \o ScheduleNow(Tail(q), s)

\* Database::Process: statements start in queue order; a statement scheduled
\* in serialized mode waits until nothing else runs and runs alone and keeps
\* the connection locked while the runs of a prepared statement are pending;
\* the others run in parallel with each other
SqliteRun(i, fatal) ==
  /\ alive /\ adapter = "sqlite"
  /\ i \in 1..Len(queue)
  /\ ~StmtBusy
  /\ \A j \in 1..(i - 1) : ~queue[j].exclusive
  /\ queue[i].exclusive => i = 1
  /\ Outcome(queue[i].call, SqliteExec(queue[i]), RemoveAt(queue, i), fatal)
  /\ UNCHANGED <<env, server, editor, http, page, adapter, nextId, now>>

\* stmt.run(uuidv4(), userId, row.date, ...) of the prepared INSERT; no callback
SqliteStmtRun(c, fatal) ==
  /\ alive /\ adapter = "sqlite"
  /\ calls[c].pc = "stmt" /\ calls[c].n < Len(calls[c].rows)
  /\ LET call == calls[c]
         k == call.n + 1
         r == Insert(table, BulkRow(call, k, call.ids[k]), now)
     IN Outcome(c, Effect(r.table, inTxn, txnBackup, <<>>,
                          [call EXCEPT !.n = k], r.err # "ok"),
                queue, fatal)
  /\ UNCHANGED <<env, server, editor, http, page, adapter, nextId, now>>

\* stmt.finalize(cb): the callback gets no error and runs COMMIT, which
\* starts at once because nothing is pending at that moment
SqliteStmtFinalize(c) ==
  /\ alive /\ adapter = "sqlite"
  /\ calls[c].pc = "stmt" /\ calls[c].n = Len(calls[c].rows)
  /\ calls' = [calls EXCEPT ![c].pc = "commit"]
  /\ queue' = ScheduleNow(queue, Stmt("commit", c, FALSE))
  /\ UNCHANGED <<env, server, editor, http, page, adapter, alive, table, inTxn, txnBackup, nextId, now>>

\* the DELETE of bulkReplaceCheckins fails (SQLITE_BUSY, SQLITE_FULL, ...):
\* its callback schedules ROLLBACK, outside serialized mode and behind what
\* is queued already, and rejects
SqliteDeleteFails ==
  /\ alive /\ adapter = "sqlite"
  /\ queue # <<>> /\ Head(queue).kind = "txdelete"
  /\ ~StmtBusy
  /\ LET c == Head(queue).call
     IN /\ queue' = Append(Tail(queue), Stmt("rollback", c, FALSE))
        /\ calls' = [calls EXCEPT ![c] = Reject(calls[c], "SQLITE_BUSY")]
  /\ UNCHANGED <<env, server, editor, http, page, adapter, alive, table, inTxn, txnBackup, nextId, now>>

----------------------------------------------------------------------------
(* AzureSQLAdapter: every await is a step; a statement that needs a row     *)
(* another transaction has locked waits                                    *)

AzureStep(c, route, pc) ==
  /\ alive /\ adapter = "azure"
  /\ calls[c].route = route /\ calls[c].pc = pc

AzureSet(c, t, call, id) ==
  /\ table' = t
  /\ calls' = [calls EXCEPT ![c] = call]
  /\ nextId' = id
  /\ UNCHANGED <<env, server, editor, http, page, adapter, alive, inTxn, txnBackup, queue, now>>

\* getCheckins: SELECT * ... ORDER BY date ASC, then the map
AzureGetCheckins(c) ==
  /\ AzureStep(c, "GET_LIST", "run")
  /\ AzureSet(c, table,
              Resolve([calls[c] EXCEPT !.pc = "done"], NoRow,
                      GetList(table, calls, calls[c].userId), 0),
              nextId)

\* getCheckin: SELECT * ... WHERE user_id = @userId AND date = @date
AzureGetCheckin(c) ==
  /\ AzureStep(c, "GET_ONE", "run")
  /\ AzureSet(c, table,
              Resolve([calls[c] EXCEPT !.pc = "done"],
                      GetOne(table, calls, calls[c].userId, calls[c].date), <<>>, 0),
              nextId)

\* createOrUpdateCheckin: MERGE evaluates ON target.user_id = source.user_id
\* AND target.date = source.date.  A matched row is locked and updated at
\* once.  When no row matches nothing is locked (the MERGE has no HOLDLOCK),
\* so the INSERT of WHEN NOT MATCHED is a later step.
AzureMerge(c) ==
  /\ AzureStep(c, "POST", "run")
  /\ LET call == calls[c]
         col == ToSqlDate(call.date)
     IN /\ AzureHolders(c, {<<call.userId, col>>}) = {}
        /\ IF KeyRows(table, call.userId, col) # <<>>
           THEN AzureSet(c, UpdateRatings(table, call.userId, col, call.values),
                         Resolve([call EXCEPT !.pc = "done"], Returned(call), <<>>, 0),
                         nextId)
           ELSE AzureSet(c, table, [call EXCEPT !.pc = "merge_insert"], nextId)

\* the INSERT of WHEN NOT MATCHED; a row that arrived since the match was
\* evaluated violates UQ_checkins_user_date (error 2627)
AzureMergeInsert(c) ==
  /\ AzureStep(c, "POST", "merge_insert")
  /\ LET call == calls[c]
         r == Insert(table, UpsertRow(call), now)
     IN /\ AzureHolders(c, {<<call.userId, ToSqlDate(call.date)>>}) = {}
        /\ IF r.err = "ok"
           THEN AzureSet(c, r.table,
                         Resolve([call EXCEPT !.pc = "done"], Returned(call), <<>>, 0),
                         nextId)
           ELSE AzureSet(c, table, Reject([call EXCEPT !.pc = "done"], "2627"), nextId)

\* deleteAllCheckins: return { deleted: result.rowsAffected[0] }
AzureDeleteAll(c) ==
  /\ AzureStep(c, "DELETE_BULK", "run")
  /\ LET u == calls[c].userId
     IN /\ AzureHolders(c, OwnerKeys(u)) = {}
        /\ AzureSet(c, DeleteOwner(table, u),
                    Resolve([calls[c] EXCEPT !.pc = "done"], NoRow, <<>>,
                            Len(OwnerRows(table, u))),
                    nextId)

\* bulkReplaceCheckins: DELETE FROM checkins WHERE user_id = @userId, inside
\* the transaction
AzureTxDelete(c) ==
  /\ AzureStep(c, "PUT_BULK", "delete")
  /\ LET u == calls[c].userId
     IN /\ AzureHolders(c, OwnerKeys(u)) = {}
        /\ AzureSet(c, DeleteOwner(table, u),
                    [calls[c] EXCEPT !.pc = "insert", !.undo = OwnerRows(table, u)],
                    nextId)

\* catch (err) { await transaction.rollback(); throw err }
AzureRollback(c, err) ==
  AzureSet(c, SelectSeq(table, LAMBDA r : r.id \notin Range(calls[c].ids))
                \o calls[c].undo,
           Reject([calls[c] EXCEPT !.pc = "done", !.undo = <<>>], err),
           nextId)

\* bulkReplaceCheckins: one INSERT of the for loop, with a fresh uuidv4()
AzureTxInsert(c) ==
  /\ AzureStep(c, "PUT_BULK", "insert")
  /\ calls[c].n < Len(calls[c].rows)
  /\ nextId <= MaxId
  /\ LET call == calls[c]
         k == call.n + 1
         row == BulkRow(call, k, nextId)
         r == Insert(table, row, now)
     IN /\ AzureHolders(c, {<<row.user_id, row.date>>}) = {}
        /\ IF r.err = "ok"
           THEN AzureSet(c, r.table,
                         [call EXCEPT !.n = k, !.ids = Append(call.ids, nextId)],
                         nextId + 1)
           ELSE AzureRollback(c, IF r.err = "UNIQUE" THEN "2627" ELSE "515")

\* bulkReplaceCheckins: await transaction.commit(); return { inserted: ... }
AzureTxCommit(c) ==
  /\ AzureStep(c, "PUT_BULK", "insert")
  /\ calls[c].n = Len(calls[c].rows)
  /\ AzureSet(c, table,
              Resolve([calls[c] EXCEPT !.pc = "done", !.undo = <<>>], NoRow, <<>>,
                      Len(calls[c].rows)),
              nextId)

\* the key the next INSERT of transaction c needs
AzureNextKey(c) ==
  {<<calls[c].userId, Stored(calls[c].rows[k].date)>> :
     k \in {calls[c].n + 1} \cap (1..Len(calls[c].rows))}

\* two transactions wait for each other's locks: the server ends one of them
\* with error 1205, which its catch block turns into a rollback
AzureDeadlock(c) ==
  /\ AzureStep(c, "PUT_BULK", "insert")
  /\ \E o \in AzureHolders(c, AzureNextKey(c)) : c \in AzureHolders(o, AzureNextKey(o))
  /\ AzureRollback(c, "1205")

----------------------------------------------------------------------------
(* process.env and DatabaseFactory *)

\* a variable that is not in the environment reads as undefined
Unset == "<undefined>"

\* undefined and '' are falsy, every other string is truthy
Truthy(v) == v \notin {Unset, ""}

EnvValues == {Unset, "", "x"}

NodeEnvs == {"production", "development"}

Env(srv, db, usr, pwd, node) ==
  [AZURE_SQL_SERVER |-> srv, AZURE_SQL_DATABASE |-> db,
   AZURE_SQL_USERNAME |-> usr, AZURE_SQL_PASSWORD |-> pwd, NODE_ENV |-> node]

\* an environment under which DatabaseFactory.create() picks adapter a
EnvOf(a) ==
  IF a = "azure" THEN Env("x", "x", "x", "x", "development")
  ELSE Env(Unset, Unset, Unset, Unset, "development")

\* azureConfig.server && azureConfig.database && azureConfig.username &&
\* azureConfig.password ? new AzureSQLAdapter(...) : new SQLiteAdapter(dbPath)
\* a factory that looks at the server and the database name only
DatabaseFactory_createByServer(e) ==
  IF Truthy(e.AZURE_SQL_SERVER) /\ Truthy(e.AZURE_SQL_DATABASE)
  THEN "azure" ELSE "sqlite"

DatabaseFactory_create(e) ==
  IF /\ Truthy(e.AZURE_SQL_SERVER) /\ Truthy(e.AZURE_SQL_DATABASE)
     /\ Truthy(e.AZURE_SQL_USERNAME) /\ Truthy(e.AZURE_SQL_PASSWORD)
  THEN "azure" ELSE "sqlite"

----------------------------------------------------------------------------
(* server/index.js: database state management *)

\* let database = null; let isDbReady = false; let isDbInitializing = false
\*   handle   the adapter's this.db / this.pool: "none", "open" or "closed"
\*   retry    retryCount of the running initialization
\*   checked  verifyDataDirectoryIfNeeded: "no", "skipped" (Azure SQL is
\*            configured), "verified" (/data is writable), "unchecked" (SQLite
\*            outside production)
\*   ready    the last answer of GET /ready (0: none yet)
\*   probe    whether the probe read of that answer succeeded
\*   closing  close() calls in progress
\*   closes   the outcomes of the close() calls that have settled
\*   requestQueue  let requestQueue = []: the requests waiting for the drain
\*   requests what has happened to each /api request: "none" (not sent),
\*            "queued", "timedout" (its 60 s timer fired while queued),
\*            "next" (next() was called: its route handler runs), "503"
\*   loops    the runs of the retry loop (dbInitPromise) still in progress
\*   attempts the passes the running loop has made
\*   delay    the last backoff delay in ms (0: none yet)
\*   initOps  the statements of the last database.initialize() and of the
\*            connection test after it
\*   health   the last answer of GET /health (0: none yet)
MaxRequests == 2   \* /api requests sent to the server

Requests == 1..MaxRequests

ServerState(database, isDbReady, isDbInitializing, handle) ==
  [database |-> database, isDbReady |-> isDbReady,
   isDbInitializing |-> isDbInitializing, handle |-> handle, retry |-> 0,
   checked |-> "no", ready |-> 0, probe |-> FALSE, closing |-> 0,
   closes |-> <<>>, requestQueue |-> <<>>,
   requests |-> [r \in Requests |-> "none"], loops |-> 0, attempts |-> 0,
   delay |-> 0, initOps |-> <<>>, health |-> 0]

\* before the first API request
ServerFresh == ServerState("null", FALSE, FALSE, "none")

\* initializeDatabaseLazy() has completed
ServerReady == ServerState("set", TRUE, FALSE, "open")

MaxSignals == 2   \* shutdown signals delivered to the process

\* const maxRetries = 10
maxRetries == 10

\* process.env.AZURE_SQL_SERVER && ... && process.env.AZURE_SQL_PASSWORD
hasAzureConfig(e) ==
  /\ Truthy(e.AZURE_SQL_SERVER) /\ Truthy(e.AZURE_SQL_DATABASE)
  /\ Truthy(e.AZURE_SQL_USERNAME) /\ Truthy(e.AZURE_SQL_PASSWORD)

ServerFrame ==
  UNCHANGED <<table, inTxn, txnBackup, queue, calls, nextId, now, env, editor, http,
              page>>

\* startServer -> verifyDataDirectoryIfNeeded(); writable: the write test on
\* /data succeeds
verifyDataDirectoryIfNeeded(writable) ==
  /\ alive /\ server.checked = "no"
  /\ IF hasAzureConfig(env)
     THEN server' = [server EXCEPT !.checked = "skipped"] /\ alive' = alive
     ELSE IF env.NODE_ENV = "production"
     THEN IF writable
          THEN server' = [server EXCEPT !.checked = "verified"] /\ alive' = alive
          ELSE \* process.exit(1)
               server' = server /\ alive' = FALSE
     ELSE server' = [server EXCEPT !.checked = "unchecked"] /\ alive' = alive
  /\ adapter' = adapter
  /\ ServerFrame

\* const baseDelay = 1000
baseDelay == 1000

RECURSIVE Pow2(_)
Pow2(n) == IF n = 0 THEN 1 ELSE 2 * Pow2(n - 1)

\* initializeDatabaseLazy() up to its first await, on server state s: nothing
\* when the database is ready or a run of the loop is in progress, else
\* isDbInitializing = true and a new run of the loop
initializeDatabaseLazy(s) ==
  IF s.isDbReady \/ s.isDbInitializing THEN s
  ELSE [s EXCEPT !.isDbInitializing = TRUE, !.retry = 0, !.attempts = 0,
                 !.loops = @ + 1]

\* requestQueue.push({ handler, reject }) with its 60 s timer
Enqueue(s, r) ==
  [s EXCEPT !.requestQueue = Append(@, r), !.requests[r] = "queued"]

\* a middleware that starts a run of the loop for every request that finds
\* the database not ready
ensureDatabaseReadyEager(r) ==
  /\ alive /\ server.checked # "no"
  /\ server.requests[r] = "none"
  /\ server' =
       IF server.isDbReady /\ server.database = "set"
       THEN [server EXCEPT !.requests[r] = "next"]
       ELSE Enqueue([server EXCEPT !.isDbInitializing = TRUE, !.retry = 0,
                                   !.attempts = 0, !.loops = @ + 1], r)
  /\ UNCHANGED <<adapter, alive>>
  /\ ServerFrame

\* a middleware that lets every request through
ensureDatabaseReadyOpen(r) ==
  /\ alive /\ server.checked # "no"
  /\ server.requests[r] = "none"
  /\ server' = [server EXCEPT !.requests[r] = "next"]
  /\ UNCHANGED <<adapter, alive>>
  /\ ServerFrame

\* app.use('/api', ensureDatabaseReady): request r arrives
ensureDatabaseReady(r) ==
  /\ alive /\ server.checked # "no"
  /\ server.requests[r] = "none"
  /\ server' =
       IF server.isDbReady /\ server.database = "set"
       THEN \* return next()
            [server EXCEPT !.requests[r] = "next"]
       ELSE LET s == IF ~server.isDbInitializing
                     THEN initializeDatabaseLazy(server) ELSE server
            IN IF s.isDbInitializing THEN Enqueue(s, r) ELSE s
  /\ UNCHANGED <<adapter, alive>>
  /\ ServerFrame

\* the setTimeout of a queued request fires: reject(new Error('Database
\* initialization timeout')) rejects the promise the middleware returned;
\* the entry stays in requestQueue.  Express 4 ignores that promise, the
\* rejection is unhandled and process.on('unhandledRejection') exits
\* (fatal); Express 5 passes it to its error handler, which answers 500.
TimerFires(r, fatal) ==
  /\ alive /\ server.requests[r] = "queued"
  /\ server' = [server EXCEPT !.requests[r] = "timedout"]
  /\ alive' = ~fatal
  /\ adapter' = adapter
  /\ ServerFrame

\* processQueuedRequests: every handler() calls next(); requestQueue = []
processQueuedRequests(s) ==
  [s EXCEPT !.requestQueue = <<>>,
            !.requests = [r \in Requests |->
                            IF r \in Range(s.requestQueue) THEN "next" ELSE @[r]]]

\* what SQLiteAdapter.initialize and AzureSQLAdapter.initialize run, and the
\* connection test of initializeDatabaseLazy after them
InitOps(a) ==
  IF a = "sqlite"
  THEN <<"open", "PRAGMA journal_mode", "CREATE TABLE IF NOT EXISTS", "SELECT">>
  ELSE <<"connect", "CREATE TABLE IF NOT EXISTS", "SELECT">>

\* a run of the loop that gives up after its first failed pass
InitAttemptOnce(ok) ==
  /\ alive /\ server.isDbInitializing /\ ~server.isDbReady
  /\ adapter' = DatabaseFactory_create(env)
  /\ server' =
       IF ok
       THEN processQueuedRequests(
              [server EXCEPT !.database = "set", !.handle = "open",
                             !.attempts = @ + 1, !.initOps = InitOps(adapter'),
                             !.isDbReady = TRUE, !.isDbInitializing = FALSE,
                             !.loops = @ - 1])
       ELSE [server EXCEPT !.database = "set", !.attempts = @ + 1,
                           !.initOps = InitOps(adapter'),
                           !.isDbInitializing = FALSE, !.loops = @ - 1]
  /\ alive' = alive
  /\ ServerFrame

\* one pass of the retry loop: database = DatabaseFactory.create(); await
\* database.initialize(); await database.getCheckins('test-connection-check');
\* on success isDbReady = true, isDbInitializing = false and the drain; on
\* failure the backoff sleep or, after the last pass, isDbInitializing =
\* false and the rejection
InitAttempt(ok) ==
  /\ alive /\ server.isDbInitializing /\ ~server.isDbReady
  /\ adapter' = DatabaseFactory_create(env)
  /\ server' =
       IF ok
       THEN processQueuedRequests(
              [server EXCEPT !.database = "set", !.handle = "open",
                             !.attempts = @ + 1, !.initOps = InitOps(adapter'),
                             !.isDbReady = TRUE, !.isDbInitializing = FALSE,
                             !.loops = @ - 1])
       ELSE IF server.retry < maxRetries
       THEN [server EXCEPT !.database = "set", !.attempts = @ + 1,
                           !.initOps = InitOps(adapter'),
                           !.delay = baseDelay * Pow2(server.retry),
                           !.retry = @ + 1]
       ELSE [server EXCEPT !.database = "set", !.attempts = @ + 1,
                           !.initOps = InitOps(adapter'),
                           !.isDbInitializing = FALSE, !.loops = @ - 1]
  /\ alive' = alive
  /\ ServerFrame

\* a /health that starts the initialization when the database is not ready
HealthStartsInit ==
  /\ alive /\ server.checked # "no"
  /\ server.health = 0
  /\ server' = [initializeDatabaseLazy(server) EXCEPT !.health = 200]
  /\ UNCHANGED <<adapter, alive>>
  /\ ServerFrame

\* GET /health
Health ==
  /\ alive /\ server.checked # "no"
  /\ server.health = 0
  /\ server' = [server EXCEPT !.health = 200]
  /\ UNCHANGED <<adapter, alive>>
  /\ ServerFrame

\* a /ready that answers like /health, without looking at the probe read
ReadyRouteLikeHealth(reachable) ==
  /\ alive /\ server.checked # "no"
  /\ server' = [server EXCEPT !.ready = IF server.isDbReady THEN 200 ELSE 503,
                              !.probe = /\ server.isDbReady
                                        /\ server.database = "set"
                                        /\ server.handle = "open"
                                        /\ reachable]
  /\ UNCHANGED <<adapter, alive>>
  /\ ServerFrame

\* GET /ready; reachable: the store answers the probe read
ReadyRoute(reachable) ==
  /\ alive /\ server.checked # "no"
  /\ LET probe == /\ server.isDbReady /\ server.database = "set"
                  /\ server.handle = "open" /\ reachable
     IN server' =
          IF ~server.isDbReady \/ server.database # "set"
          THEN [server EXCEPT !.ready = 503, !.probe = FALSE]
          ELSE [server EXCEPT !.ready = IF probe THEN 200 ELSE 503,
                              !.probe = probe]
  /\ UNCHANGED <<adapter, alive>>
  /\ ServerFrame

\* SIGTERM / SIGINT -> gracefulShutdown: if (database) await database.close()
Signal ==
  /\ alive /\ server.checked # "no"
  /\ server.closing + Len(server.closes) < MaxSignals
  /\ IF server.database = "set"
     THEN server' = [server EXCEPT !.closing = @ + 1] /\ alive' = alive
     ELSE \* process.exit(0)
          server' = server /\ alive' = FALSE
  /\ adapter' = adapter
  /\ ServerFrame

\* SQLiteAdapter.close: if (this.db) this.db.close(cb) else resolve(); this.db
\* is never reset, and closing a closed Database fails with SQLITE_MISUSE.
\* AzureSQLAdapter.close: if (this.pool) await this.pool.close(), which does
\* nothing on a closed pool.
CloseOutcome(a, handle) ==
  IF a = "sqlite" /\ handle = "closed" THEN "SQLITE_MISUSE" ELSE "ok"

\* a close() call settles
CloseDone ==
  /\ alive /\ server.closing > 0
  /\ server' =
       [server EXCEPT !.closing = @ - 1,
                      !.closes = Append(@, CloseOutcome(adapter, server.handle)),
                      !.handle = IF @ = "none" THEN "none" ELSE "closed"]
  /\ UNCHANGED <<adapter, alive>>
  /\ ServerFrame

\* gracefulShutdown after its await: process.exit(0), or process.exit(1)
\* from the catch block
ShutdownExit ==
  /\ alive /\ server.closes # <<>>
  /\ alive' = FALSE
  /\ UNCHANGED <<adapter, server>>
  /\ ServerFrame

----------------------------------------------------------------------------
(* client/src/DataEditor.js *)

\* the component is not mounted
EditorClosed ==
  [phase |-> "closed", csvData |-> <<>>, request |-> <<>>,
   error |-> [kind |-> "", row |-> 0, field |-> ""], success |-> 0]

\* CSV text.  A text is the sequence of its lines, a line the sequence of its
\* cells (what split(',') returns), a cell the sequence of its characters.
\* The texts of this model hold no upper-case letter and no '0x' prefix.
MaxCell == 2      \* characters in a rating cell

Digits == <<"0", "1", "2", "3", "4", "5", "6", "7", "8", "9">>

IsDigit(ch) == \E i \in 1..10 : Digits[i] = ch

DigitValue(ch) == (CHOOSE i \in 1..10 : Digits[i] = ch) - 1

\* String.prototype.trim on a cell
RECURSIVE TrimLeft(_)
TrimLeft(t) == IF t # <<>> /\ Head(t) = " " THEN TrimLeft(Tail(t)) ELSE t

RECURSIVE TrimRight(_)
TrimRight(t) ==
  IF t # <<>> /\ t[Len(t)] = " " THEN TrimRight(SubSeq(t, 1, Len(t) - 1)) ELSE t

Trim(t) == TrimRight(TrimLeft(t))

\* the value of the longest prefix of digits, acc being the value so far
RECURSIVE DigitsPrefix(_, _)
DigitsPrefix(t, acc) ==
  IF t # <<>> /\ IsDigit(Head(t))
  THEN DigitsPrefix(Tail(t), 10 * acc + DigitValue(Head(t)))
  ELSE acc

\* parseInt(text): leading blanks are skipped, then an optional sign and the
\* longest run of digits are read, whatever follows is ignored; NaN without
\* a digit
ParseInt(text) ==
  LET t == TrimLeft(text)
      neg == t # <<>> /\ Head(t) = "-"
      u == IF neg THEN Tail(t) ELSE t
  IN IF u = <<>> \/ ~IsDigit(Head(u)) THEN [nan |-> TRUE, value |-> 0]
     ELSE [nan |-> FALSE,
           value |-> IF neg THEN 0 - DigitsPrefix(u, 0) ELSE DigitsPrefix(u, 0)]

\* /^\d{4}-\d{2}-\d{2}$/.test(cell)
DateFormatOk(cell) ==
  /\ Len(cell) = 10
  /\ \A i \in 1..10 : IF i \in {5, 8} THEN cell[i] = "-" ELSE IsDigit(cell[i])

\* the month and day of a 'YYYY-MM-DD' text
DateOfText(cell) ==
  <<10 * DigitValue(cell[6]) + DigitValue(cell[7]),
    10 * DigitValue(cell[9]) + DigitValue(cell[10])>>

HeaderDate == <<"d", "a", "t", "e">>
HeaderOverall == <<"o", "v", "e", "r", "a", "l", "l">>
HeaderWellbeing == <<"w", "e", "l", "l", "b", "e", "i", "n", "g">>
HeaderGrowth == <<"g", "r", "o", "w", "t", "h">>
HeaderRelationships ==
  <<"r", "e", "l", "a", "t", "i", "o", "n", "s", "h", "i", "p", "s">>
HeaderImpact == <<"i", "m", "p", "a", "c", "t">>
HeaderNotes == <<"n", "o", "t", "e", "s">>

\* ['overall', 'wellbeing', 'growth', 'relationships', 'impact'], with the
\* name each field has in a rating object
RatingFields ==
  << [header |-> HeaderOverall, key |-> "overall"],
     [header |-> HeaderWellbeing, key |-> "wellbeing"],
     [header |-> HeaderGrowth, key |-> "growth"],
     [header |-> HeaderRelationships, key |-> "relationships"],
     [header |-> HeaderImpact, key |-> "impact"] >>

ExpectedHeaders ==
  {HeaderDate} \cup {RatingFields[f].header : f \in 1..5}

BlankLine(line) == Len(line) = 1 /\ Trim(line[1]) = <<>>

\* csvText.trim().split('\n'): blank lines at both ends go, and the empty
\* text splits into one empty line
RECURSIVE DropBlankHead(_)
DropBlankHead(ls) ==
  IF ls # <<>> /\ BlankLine(Head(ls)) THEN DropBlankHead(Tail(ls)) ELSE ls

RECURSIVE DropBlankTail(_)
DropBlankTail(ls) ==
  IF ls # <<>> /\ BlankLine(ls[Len(ls)])
  THEN DropBlankTail(SubSeq(ls, 1, Len(ls) - 1)) ELSE ls

SplitLines(text) ==
  LET ls == DropBlankTail(DropBlankHead(text))
  IN IF ls = <<>> THEN << << <<>> >> >> ELSE ls

\* row[header.trim()] = values[index].trim(): a later column of the same
\* name overwrites an earlier one; undefined when there is no such column
CellOf(headers, values, name) ==
  LET at == {i \in 1..Len(headers) : Trim(headers[i]) = name}
  IN Trim(values[CHOOSE i \in at : \A j \in at : j <= i])

\* the first of the five fields whose parseInt is NaN or outside 1..10, or 0
BadField(headers, values) ==
  LET bad == {f \in 1..5 :
                LET v == ParseInt(CellOf(headers, values, RatingFields[f].header))
                IN v.nan \/ v.value < 1 \/ v.value > 10}
  IN IF bad = {} THEN 0 ELSE CHOOSE f \in bad : \A g \in bad : f <= g

CsvError(kind, row, field) == [kind |-> kind, row |-> row, field |-> field]

NoCsvError == CsvError("", 0, "")

CsvResult(ok, data, error) == [ok |-> ok, data |-> data, error |-> error]

\* the row object validateCSV pushes: the date text and the parsed ratings
CsvRow(headers, values) ==
  [date |-> CellOf(headers, values, HeaderDate),
   values |->
     [k \in RatingKeys |->
        LET f == CHOOSE g \in 1..5 : RatingFields[g].key = k
        IN ParseInt(CellOf(headers, values, RatingFields[f].header)).value]]

\* a loop that skips a row it cannot use (continue) where validateCSV throws
ValidateRowsSkipping(lines, headers, i, data) ==
  LET good == SelectSeq(SubSeq(lines, i, Len(lines)),
                        LAMBDA l : /\ ~BlankLine(l)
                                   /\ Len(l) = Len(headers)
                                   /\ DateFormatOk(CellOf(headers, l, HeaderDate))
                                   /\ BadField(headers, l) = 0)
  IN CsvResult(TRUE, data \o [k \in 1..Len(good) |-> CsvRow(headers, good[k])],
               NoCsvError)

\* the for loop of validateCSV from line i on (lines[i - 1] in the code)
RECURSIVE ValidateRows(_, _, _, _)
ValidateRows(lines, headers, i, data) ==
  IF i > Len(lines) THEN CsvResult(TRUE, data, NoCsvError)
  ELSE IF BlankLine(lines[i]) THEN ValidateRows(lines, headers, i + 1, data)
  ELSE IF Len(lines[i]) # Len(headers)
  THEN \* Row ${i + 1} has incorrect number of columns
       CsvResult(FALSE, <<>>, CsvError("columns", i, ""))
  ELSE IF ~DateFormatOk(CellOf(headers, lines[i], HeaderDate))
  THEN \* Row ${i + 1}: Date must be in YYYY-MM-DD format
       CsvResult(FALSE, <<>>, CsvError("format", i, "date"))
  ELSE IF BadField(headers, lines[i]) # 0
  THEN \* Row ${i + 1}: ${field} must be a number between 1 and 10
       CsvResult(FALSE, <<>>,
                 CsvError("range", i, RatingFields[BadField(headers, lines[i])].key))
  ELSE ValidateRows(lines, headers, i + 1, Append(data, CsvRow(headers, lines[i])))

\* validateCSV(csvText)
ValidateCSV(text) ==
  LET lines == SplitLines(text)
      headers == lines[1]
  IN IF ~(ExpectedHeaders \subseteq Range(headers))
     THEN \* CSV must include these columns: ...
          CsvResult(FALSE, <<>>, CsvError("header", 0, ""))
     ELSE ValidateRows(lines, headers, 2, <<>>)

\* JSON.stringify({ data: validatedData }) as the PUT route receives it
PayloadOf(data) ==
  [k \in 1..Len(data) |-> PayloadRow(DateOfText(data[k].date), data[k].values)]

\* the mounted component: the text area holds text, nothing is in flight
EditorWith(text) == [EditorClosed EXCEPT !.phase = "idle", !.csvData = text]

\* onChange of the text area: setCsvData(e.target.value)
EditCsv(text) ==
  /\ editor.phase = "idle"
  /\ editor' = [editor EXCEPT !.csvData = text]
  /\ UNCHANGED <<adapter, alive, table, inTxn, txnBackup, queue, calls, nextId,
                 now, env, server, http, page>>

\* saveData up to its fetch: validateCSV throws, and the catch block shows
\* the message, or the PUT request is sent with the validated rows
SaveData ==
  /\ editor.phase = "idle"
  /\ LET r == ValidateCSV(editor.csvData)
     IN editor' =
          IF r.ok
          THEN [editor EXCEPT !.phase = "sent", !.request = r.data,
                              !.error = NoCsvError, !.success = 0]
          ELSE [editor EXCEPT !.error = r.error, !.request = <<>>, !.success = 0]
  /\ UNCHANGED <<adapter, alive, table, inTxn, txnBackup, queue, calls, nextId,
                 now, env, server, http, page>>

\* the request of saveData reaches PUT /api/checkins/:userId/bulk
EditorPut(c, u) ==
  /\ editor.phase = "sent"
  /\ PutBulk(c, u, TRUE, PayloadOf(editor.request))

\* the rest of saveData: response.ok shows the success message, any other
\* status and a failed fetch show 'Save failed: ...'
EditorReceive(c) ==
  /\ editor.phase = "sent"
  /\ calls[c].state \in {"resolved", "rejected", "answered", "lost"}
  /\ editor' =
       IF calls[c].status = 200
       THEN [editor EXCEPT !.phase = "idle", !.success = Len(editor.request)]
       ELSE [editor EXCEPT !.phase = "idle",
                           !.error = CsvError("server", 0, "")]
  /\ calls' = [calls EXCEPT ![c] = IdleCall]
  /\ UNCHANGED <<adapter, alive, table, inTxn, txnBackup, queue, nextId, now,
                 env, server, http, page>>

----------------------------------------------------------------------------
(* server/index.js: the middleware chain of an /api request *)

\* JavaScript values of a request: undefined, null, a string, a number (in
\* tenths, so that 1.5 is a value)
JsUndefined == [type |-> "undefined", text |-> <<>>, tenths |-> 0]

JsNull == [type |-> "null", text |-> <<>>, tenths |-> 0]

JsString(t) == [type |-> "string", text |-> t, tenths |-> 0]

JsNumber(n) == [type |-> "number", text |-> <<>>, tenths |-> n]

\* !value
Falsy(v) ==
  \/ v.type \in {"undefined", "null"}
  \/ v.type = "string" /\ v.text = <<>>
  \/ v.type = "number" /\ v.tenths = 0

HexLetters == <<"a", "b", "c", "d", "e", "f", "A", "B", "C", "D", "E", "F">>

IsHex(ch) == IsDigit(ch) \/ \E i \in 1..12 : HexLetters[i] = ch

\* /^[0-9a-f]{8}-[0-9a-f]{4}-[0-9a-f]{4}-[0-9a-f]{4}-[0-9a-f]{12}$/i.test(text)
UuidFormatOk(t) ==
  /\ Len(t) = 36
  /\ \A i \in 1..36 : IF i \in {9, 14, 19, 24} THEN t[i] = "-" ELSE IsHex(t[i])

\* text.replace(/<[^>]*>/g, '')
RECURSIVE StripTags(_)
StripTags(t) ==
  IF t = <<>> THEN <<>>
  ELSE IF Head(t) = "<" /\ \E j \in 2..Len(t) : t[j] = ">"
  THEN LET j == CHOOSE k \in 2..Len(t) :
                  t[k] = ">" /\ \A m \in 2..(k - 1) : t[m] # ">"
       IN StripTags(SubSeq(t, j + 1, Len(t)))
  ELSE <<Head(t)>> \o StripTags(Tail(t))

\* req.body[key] = req.body[key].trim().replace(/<[^>]*>/g, '') for strings
Sanitize(v) == IF v.type = "string" THEN JsString(StripTags(Trim(v.text))) ELSE v

SanitizeBody(b) == [k \in DOMAIN b |-> IF k = "isArray" THEN b[k] ELSE Sanitize(b[k])]

BodyKeys ==
  {"userId", "date", "overall", "wellbeing", "growth", "relationships", "impact"}

NoBody == [k \in BodyKeys \cup {"isArray"} |-> IF k = "isArray" THEN FALSE ELSE JsUndefined]

\* the layers of the app that see a request under /api, in the order of
\* their registration (app.use / app.get / app.post / app.put / app.delete)
Layers ==
  <<[name |-> "apiLimiter", method |-> "use", params |-> {}],
    [name |-> "ensureDatabaseReady", method |-> "use", params |-> {}],
    [name |-> "GET /api/checkins/:userId", method |-> "GET_LIST",
     params |-> {"userId"}],
    [name |-> "GET /api/checkins/:userId/:date", method |-> "GET_ONE",
     params |-> {"userId", "date"}],
    [name |-> "validateAndSanitizeInput", method |-> "use", params |-> {}],
    [name |-> "POST /api/checkins", method |-> "POST", params |-> {}],
    [name |-> "PUT /api/checkins/:userId/bulk", method |-> "PUT_BULK",
     params |-> {"userId"}],
    [name |-> "DELETE /api/checkins/:userId/bulk", method |-> "DELETE_BULK",
     params |-> {"userId"}]>>

\* no request
HttpIdle ==
  [method |-> "none", userId |-> JsUndefined, date |-> JsUndefined,
   body |-> NoBody, tz |-> 0, over |-> "none", layer |-> 0, status |-> 0,
   ops |-> <<>>]

\* a request as it arrives: the path segments, the parsed JSON body and the
\* server's time zone (hours east of UTC)
HttpRequest(method, userId, date, body, tz) ==
  [HttpIdle EXCEPT !.method = method, !.userId = userId, !.date = date,
                   !.body = body, !.tz = tz, !.layer = 1]

\* the quota of its address that the request exceeds: none, the one of
\* generalLimiter or apiLimiter, or the one of strictLimiter
Quotas == {"none", "api", "strict"}

\* rateLimit({ windowMs, max, message }): 429 for a request over the quota
RateLimit(name, h) ==
  IF h.over = name THEN [h EXCEPT !.status = 429, !.layer = 0]
  ELSE [h EXCEPT !.layer = @ + 1]

\* req.params[name] as the layer sees it: a layer mounted with app.use has
\* no route parameters
ParamAt(layer, h, name) ==
  IF name \in layer.params THEN h[name] ELSE JsUndefined

\* res.status(status).json(...) ends the request
Respond(h, status, ops) ==
  [h EXCEPT !.status = status, !.ops = h.ops \o ops, !.layer = 0]

Next_(h) == [h EXCEPT !.layer = @ + 1]

\* the local calendar day of the server's clock
LocalToday == <<1, 31>>

\* new Date('YYYY-MM-DD'): midnight UTC of that day in seconds, NaN (Null)
\* for a month or day that does not exist
NewDate(text) ==
  LET d == DateOfText(text)
  IN IF d[1] \in 1..12 /\ d[2] \in 1..31 THEN ToSqlDate(d) ELSE Null

\* today.setHours(23, 59, 59, 999) ends the local day, one millisecond before
\* the next local midnight, which is tz hours before the next midnight UTC
NextLocalMidnight(tz) == ToSqlDate(LocalToday) + SecPerDay - tz * 3600

\* inputDate > today
InFuture(text, tz) ==
  NewDate(text) # Null /\ NewDate(text) >= NextLocalMidnight(tz)

IsRating(v) ==
  /\ v.type = "number" /\ v.tenths % 10 = 0
  /\ v.tenths >= 10 /\ v.tenths <= 100

\* function validateAndSanitizeInput(req, res, next)
validateAndSanitizeInput(layer, h) ==
  LET userId == ParamAt(layer, h, "userId")
      date == ParamAt(layer, h, "date")
  IN IF ~Falsy(userId) /\ ~UuidFormatOk(userId.text)
     THEN Respond(h, 400, <<>>)
     ELSE IF ~Falsy(date) /\ ~DateFormatOk(date.text)
     THEN Respond(h, 400, <<>>)
     ELSE Next_([h EXCEPT !.body = SanitizeBody(@)])

\* app.post('/api/checkins', ...)
PostHandler(h, storeOk) ==
  LET b == h.body
  IN IF \/ Falsy(b.userId) \/ Falsy(b.date)
        \/ \E k \in RatingKeys : b[k].type = "undefined"
     THEN Respond(h, 400, <<>>)
     ELSE IF ~(b.userId.type = "string" /\ UuidFormatOk(b.userId.text))
     THEN Respond(h, 400, <<>>)
     ELSE IF ~(b.date.type = "string" /\ DateFormatOk(b.date.text))
     THEN Respond(h, 400, <<>>)
     ELSE IF InFuture(b.date.text, h.tz)
     THEN Respond(h, 400, <<>>)
     ELSE IF \E k \in RatingKeys : ~IsRating(b[k])
     THEN Respond(h, 400, <<>>)
     ELSE Respond(h, IF storeOk THEN 201 ELSE 500, <<"createOrUpdateCheckin">>)

\* the handler of a route, behind strictLimiter for the routes that write;
\* storeOk: the adapter's promise resolves
Handle(layer, h, storeOk) ==
  LET status == IF storeOk THEN 200 ELSE 500
  IN CASE layer.method \in {"POST", "PUT_BULK", "DELETE_BULK"}
            /\ h.over = "strict" -> Respond(h, 429, <<>>)
       [] layer.method = "GET_LIST" -> Respond(h, status, <<"getCheckins">>)
       [] layer.method = "GET_ONE" -> Respond(h, status, <<"getCheckin">>)
       [] layer.method = "POST" -> PostHandler(h, storeOk)
       [] layer.method = "PUT_BULK" ->
            IF ~h.body.isArray THEN Respond(h, 400, <<>>)
            ELSE Respond(h, status, <<"bulkReplaceCheckins">>)
       [] layer.method = "DELETE_BULK" ->
            Respond(h, status, <<"deleteAllCheckins">>)

HttpFrame ==
  UNCHANGED <<adapter, alive, table, inTxn, txnBackup, queue, calls, nextId,
              now, env, server, editor, page>>

\* a request arrives at the app
HttpArrive(h) ==
  /\ alive /\ http = HttpIdle
  /\ http' = h
  /\ HttpFrame

\* the router passes the request to its next layer: a middleware runs, a
\* route whose method and path match handles the request, any other route
\* is skipped
HttpLayer(storeOk) ==
  /\ alive /\ http.layer \in 1..Len(Layers)
  /\ LET layer == Layers[http.layer]
     IN http' =
          IF layer.name = "apiLimiter"
          THEN RateLimit("api", http)
          ELSE IF layer.name = "ensureDatabaseReady"
          THEN IF server.isDbReady /\ server.database = "set"
               THEN Next_(http) ELSE http
          ELSE IF layer.name = "validateAndSanitizeInput"
          THEN validateAndSanitizeInput(layer, http)
          ELSE IF layer.method = http.method
          THEN Handle(layer, http, storeOk)
          ELSE Next_(http)
  /\ HttpFrame

----------------------------------------------------------------------------
(* client/src/CheckinPage.js: the check-in page of one user and the server  *)
(* that answers its requests                                                *)

\* the component is not mounted
PageClosed == [phase |-> "closed"]

MaxTasks == 2   \* async functions of the page that wait for a response

Tasks == 1..MaxTasks

PageUser == "u1"

\* useState({ overall: 5, wellbeing: 5, growth: 5, relationships: 5, impact: 5 })
Fives == Ratings(5, 5, 5, 5, 5)

\* no auto-save timer is pending
NoTimer == [date |-> NoDate, values |-> NoValues]

\* a free slot
NoTask == [kind |-> "none", pc |-> "done", date |-> NoDate, values |-> NoValues]

\* a call of fetchDataForDate or autoSave that waits at
\* the await named by pc; date and values are those of its closure
Task(kind, pc, d, v) == [kind |-> kind, pc |-> pc, date |-> d, values |-> v]

\* k free slots, the lowest first
FreeTasks(pg, k) ==
  CHOOSE S \in SUBSET Tasks :
    /\ \A i \in S : pg.tasks[i].kind = "none"
    /\ Cardinality(S) = k \/ (Cardinality(S) < k /\ \A i \in Tasks \ S : pg.tasks[i].kind # "none")
    /\ \A i \in S, j \in Tasks \ S : pg.tasks[j].kind = "none" => i < j

HasFree(pg, k) == Cardinality({i \in Tasks : pg.tasks[i].kind = "none"}) >= k

Spawn(pg, task) ==
  LET i == CHOOSE j \in FreeTasks(pg, 1) : TRUE
  IN [pg EXCEPT !.tasks[i] = task]

\* the effect that follows a change of userId or date: fetchDataForDate();
\* its fetchHistoricalData() and loadCurrentName() set historicalData and
\* currentName only, the data of the chart and of the title, which are not
\* part of this model
DateEffect(pg) == Spawn(pg, Task("forDate", "one", pg.date, NoValues))

\* the component after its first render and its effects, on day today
PageMounted(today) ==
  DateEffect([phase |-> "open", date |-> today, values |-> Fives,
              loading |-> FALSE,
              autoSaveTimeout |-> NoTimer, existingEntryForDate |-> NoRow,
              saveError |-> FALSE, clearPending |-> FALSE,
              hasUserMadeChanges |-> FALSE,
              tasks |-> [i \in Tasks |-> NoTask]])

PageFrame ==
  UNCHANGED <<adapter, alive, inTxn, txnBackup, queue, calls, now, env,
              server, editor, http>>

\* onChange of the date field: setDate(e.target.value), then the effect
SetDate(d) ==
  /\ page.phase = "open" /\ d # page.date
  /\ HasFree(page, 1)
  /\ page' = DateEffect([page EXCEPT !.date = d])
  /\ UNCHANGED <<table, nextId>>
  /\ PageFrame

\* handleSliderChange(category, newValue): the timer of the last change is
\* cleared, the new one will call the autoSave of this render
handleSliderChange(category, newValue) ==
  /\ page.phase = "open" /\ newValue # page.values[category]
  /\ LET newValues == [page.values EXCEPT ![category] = newValue]
     IN page' = [page EXCEPT !.values = newValues,
                             !.hasUserMadeChanges = TRUE,
                             !.autoSaveTimeout =
                                [date |-> page.date, values |-> newValues]]
  /\ UNCHANGED <<table, nextId>>
  /\ PageFrame

\* the 1 s timer fires: autoSave(newValues) up to its fetch
autoSave ==
  /\ page.phase = "open" /\ page.autoSaveTimeout # NoTimer
  /\ HasFree(page, 1)
  /\ page' = Spawn([page EXCEPT !.autoSaveTimeout = NoTimer,
                                !.loading = TRUE, !.saveError = FALSE],
                   Task("save", "post", page.autoSaveTimeout.date,
                        page.autoSaveTimeout.values))
  /\ UNCHANGED <<table, nextId>>
  /\ PageFrame

\* setTimeout(() => setSaveError(""), 3000); last: no other such timer is
\* pending
ClearSaveError(last) ==
  /\ page.phase = "open" /\ page.clearPending
  /\ page' = [page EXCEPT !.saveError = FALSE, !.clearPending = ~last]
  /\ UNCHANGED <<table, nextId>>
  /\ PageFrame

\* histData.filter((entry) => entry.date < date)
\*         .sort((a, b) => b.date.localeCompare(a.date))[0]
previousEntry(histData, d) ==
  LET earlier == OrderByDate(SelectSeq(histData, LAMBDA e : DateLess(e.date, d)))
  IN IF earlier = <<>> THEN NoRow ELSE earlier[Len(earlier)]

\* what GET /api/checkins/:userId/:date and GET /api/checkins/:userId answer
ServerOne(d) == GetOne(table, calls, PageUser, d)

ServerList == GetList(table, calls, PageUser)

\* fetchDataForDate from the await of its first fetch on: the record of the
\* date is shown, or the page asks for the list
ForDateOne(pg, i, data) ==
  IF data # NoRow
  THEN [pg EXCEPT !.existingEntryForDate = data, !.hasUserMadeChanges = FALSE,
                  !.values = ValuesOf(data), !.tasks[i].pc = "done"]
  ELSE [pg EXCEPT !.existingEntryForDate = NoRow, !.hasUserMadeChanges = FALSE,
                  !.tasks[i].pc = "list"]

\* fetchDataForDate from the await of its second fetch on
ForDateList(pg, i, histData) ==
  LET e == previousEntry(histData, pg.tasks[i].date)
  IN [pg EXCEPT !.values = IF e # NoRow THEN ValuesOf(e) ELSE Fives,
                !.tasks[i].pc = "done"]

\* the end of an async function: autoSave runs its finally block
Finish(pg, i) ==
  IF pg.tasks[i].pc # "done" THEN pg
  ELSE [pg EXCEPT !.tasks[i] = NoTask,
                  !.loading = IF pg.tasks[i].kind = "save" THEN FALSE ELSE @]

\* the response of the fetch that task i waits for arrives; ok: the fetch
\* resolves (with response.ok for a POST), else it rejects or the POST is
\* answered with an error status
Response(i, ok) ==
  /\ page.phase = "open" /\ page.tasks[i].kind # "none"
  /\ LET t == page.tasks[i]
         failed == [page EXCEPT !.tasks[i].pc = "done"]
     IN
     CASE t.kind = "forDate" /\ t.pc = "one" ->
            /\ page' = Finish(IF ok THEN ForDateOne(page, i, ServerOne(t.date))
                              ELSE failed, i)
            /\ UNCHANGED <<table, nextId>>
       [] t.kind = "forDate" /\ t.pc = "list" ->
            /\ page' = Finish(IF ok THEN ForDateList(page, i, ServerList)
                              ELSE failed, i)
            /\ UNCHANGED <<table, nextId>>
       [] t.kind = "save" /\ t.pc = "post" ->
            IF ok
            THEN \* the server has stored the record and answers 201
                 /\ nextId <= MaxId
                 /\ table' = InsertOrReplace(
                               table, Row(nextId, PageUser, t.date, t.values, Null),
                               now).table
                 /\ nextId' = nextId + 1
                 /\ page' = [page EXCEPT !.tasks[i].pc = "history"]
            ELSE /\ page' = Finish([failed EXCEPT !.saveError = TRUE,
                                                  !.clearPending = TRUE], i)
                 /\ UNCHANGED <<table, nextId>>
       [] t.kind = "save" /\ t.pc = "history" ->
            \* await fetchHistoricalData(), which catches its own errors
            /\ page' = [page EXCEPT !.tasks[i].pc = "one"]
            /\ UNCHANGED <<table, nextId>>
       [] t.kind = "save" /\ t.pc = "one" ->
            \* await fetchDataForDate(), the one of the render of the timer
            /\ page' = Finish(IF ok THEN ForDateOne(page, i, ServerOne(t.date))
                              ELSE failed, i)
            /\ UNCHANGED <<table, nextId>>
       [] t.kind = "save" /\ t.pc = "list" ->
            /\ page' = Finish(IF ok THEN ForDateList(page, i, ServerList)
                              ELSE failed, i)
            /\ UNCHANGED <<table, nextId>>
  /\ PageFrame

----------------------------------------------------------------------------
(* Specifications *)

\* DatabaseFactory.create() picks the adapter; the table exists and is empty
InitStore(slots) ==
  /\ adapter \in {"sqlite", "azure"}
  /\ alive = TRUE
  /\ table = <<>>
  /\ inTxn = FALSE
  /\ txnBackup = <<>>
  /\ queue = <<>>
  /\ calls = [c \in slots |-> IdleCall]
  /\ nextId = 1
  /\ now = 0

\* the server has initialized its database; no Data Editor is open
InitWith(slots) ==
  /\ InitStore(slots)
  /\ env = EnvOf(adapter)
  /\ server = ServerReady
  /\ editor = EditorClosed
  /\ http = HttpIdle
  /\ page = PageClosed

Reads(U, D) ==
  \/ \E c \in Slots, u \in U : GetCheckinsRoute(c, u)
  \/ \E c \in Slots, u \in U, d \in D : GetCheckinRoute(c, u, d)

Writes(U, D, V, P) ==
  \/ \E c \in Slots, u \in U, d \in D, v \in V : PostCheckins(c, u, d, v)
  \/ \E c \in Slots, u \in U, data \in P : PutBulk(c, u, TRUE, data)
  \/ \E c \in Slots, u \in U : PutBulk(c, u, FALSE, <<>>)
  \/ \E c \in Slots, u \in U : DeleteBulk(c, u)

Sqlite ==
  \/ \E i \in 1..Len(queue), fatal \in BOOLEAN : SqliteRun(i, fatal)
  \/ \E c \in Slots, fatal \in BOOLEAN : SqliteStmtRun(c, fatal)
  \/ \E c \in Slots : SqliteStmtFinalize(c)

AzureReads ==
  \/ \E c \in Slots : AzureGetCheckins(c)
  \/ \E c \in Slots : AzureGetCheckin(c)

AzureWrites ==
  \/ \E c \in Slots : AzureMerge(c)
  \/ \E c \in Slots : AzureMergeInsert(c)
  \/ \E c \in Slots : AzureDeleteAll(c)

AzureTx ==
  \/ \E c \in Slots : AzureTxDelete(c)
  \/ \E c \in Slots : AzureTxInsert(c)
  \/ \E c \in Slots : AzureTxCommit(c)

\* Spec: requests arrive one at a time, each is answered before the next is
\* sent; any user, date, rating object and bulk payload.
Payloads == PayloadsOver({PayloadRow(d, v) : d \in Dates, v \in BulkValues})

Init == InitWith(1..1)

Next ==
  \/ Reads(Users, Dates)
  \/ Writes(Users, Dates, AnyValues, Payloads)
  \/ \E c \in Slots : Retire(c)
  \/ Tick
  \/ Sqlite
  \/ AzureReads
  \/ AzureWrites
  \/ AzureTx

Spec == Init /\ [][Next]_vars

\* SpecConcurrent: up to MaxCalls write requests of one user are in flight at
\* once, with valid rows.
ConcurrentUsers == {"u1"}

ConcurrentPayloads ==
  PayloadsOver({PayloadRow(d, Ratings(1, 2, 3, 4, 5)) : d \in Dates})

InitConcurrent == InitWith(1..MaxCalls)

NextConcurrent ==
  \/ Writes(ConcurrentUsers, Dates, ValidValues, ConcurrentPayloads)
  \/ \E c \in Slots : Retire(c)
  \/ Sqlite
  \/ AzureWrites
  \/ AzureTx
  \/ \E c \in Slots : AzureDeadlock(c)

SpecConcurrent == InitConcurrent /\ [][NextConcurrent]_vars

\* SpecEditor: the Data Editor of one user and the server behind it; the
\* text area holds a header line and up to MaxRows further lines.
EditorUser == "u1"

CsvHeader ==
  <<HeaderDate, HeaderOverall, HeaderWellbeing, HeaderGrowth,
    HeaderRelationships, HeaderImpact>>

DateTexts ==
  { <<"2", "0", "2", "4", "-", "0", "1", "-", "3", "1">>,
    <<"2", "0", "2", "4", "-", "0", "2", "-", "0", "1">> }

BadDateTexts ==
  { <<"2", "0", "2", "4", "-", "2", "-", "1">>,
    <<"0", "1", "/", "3", "1", "/", "2", "0", "2", "4">> }

CellChars == {"0", "1", "7", ".", "e", "-", " "}

RatingTexts == UNION {[1..n -> CellChars] : n \in 0..MaxCell}

Five == <<"5">>

CsvLine(d, a, b, c, e, f) == <<d, a, b, c, e, f>>

\* lines that differ from a valid one in a single cell or in their length
ProbeLines ==
  LET d == <<"2", "0", "2", "4", "-", "0", "1", "-", "3", "1">>
  IN {[CsvLine(d, Five, Five, Five, Five, Five) EXCEPT ![f + 1] = t] :
        f \in 1..5, t \in RatingTexts}
     \cup {CsvLine(b, Five, Five, Five, Five, Five) : b \in BadDateTexts}
     \cup {<<d, Five, Five, Five, Five>>, <<d, Five, Five, Five, Five, Five, Five>>}

BaseLines ==
  {CsvLine(d, Five, Five, Five, Five, Five) : d \in DateTexts} \cup {<< <<>> >>}

EmptyText == <<>>

CsvTexts ==
  {EmptyText, <<CsvHeader>>, <<CsvHeader, << <<>> >> >>,
   <<Append(CsvHeader, HeaderNotes), <<Five, Five, Five, Five, Five, Five>> >>,
   <<SubSeq(CsvHeader, 1, 5), <<Five, Five, Five, Five, Five>> >>}
  \cup {<<CsvHeader, p>> : p \in ProbeLines \cup BaseLines}
  \cup (IF MaxRows < 2 THEN {}
        ELSE {<<CsvHeader, b, p>> : b \in BaseLines, p \in ProbeLines \cup BaseLines}
             \cup {<<CsvHeader, p, b>> : b \in BaseLines, p \in ProbeLines})

InitEditor ==
  /\ InitStore(1..1)
  /\ env = EnvOf(adapter)
  /\ server = ServerReady
  /\ editor \in {EditorWith(text) : text \in CsvTexts}
  /\ http = HttpIdle
  /\ page = PageClosed

NextEditor ==
  \/ SaveData
  \/ \E c \in Slots : EditorPut(c, EditorUser)
  \/ \E c \in Slots : EditorReceive(c)
  \/ \E text \in {EmptyText, <<CsvHeader>>} : EditCsv(text)
  \/ Sqlite
  \/ AzureTx

SpecEditor == InitEditor /\ [][NextEditor]_vars

\* SpecServer: the life of one server process, from startServer under any
\* environment to its shutdown, with one /api request.
Environments ==
  {Env(a, b, c, d, n) : a \in EnvValues, b \in EnvValues, c \in EnvValues,
                        d \in EnvValues, n \in NodeEnvs}

InitServer ==
  /\ adapter = "none"
  /\ alive = TRUE
  /\ table = <<>>
  /\ inTxn = FALSE
  /\ txnBackup = <<>>
  /\ queue = <<>>
  /\ calls = [c \in 1..1 |-> IdleCall]
  /\ nextId = 1
  /\ now = 0
  /\ env \in Environments
  /\ server = ServerFresh
  /\ editor = EditorClosed
  /\ http = HttpIdle
  /\ page = PageClosed

NextServer ==
  \/ \E writable \in BOOLEAN : verifyDataDirectoryIfNeeded(writable)
  \/ \E r \in {1} : ensureDatabaseReady(r)
  \/ \E r \in {1}, fatal \in BOOLEAN : TimerFires(r, fatal)
  \/ \E ok \in BOOLEAN : InitAttempt(ok)
  \/ \E reachable \in BOOLEAN : ReadyRoute(reachable)
  \/ Signal
  \/ CloseDone
  \/ ShutdownExit

SpecServer == InitServer /\ [][NextServer]_vars

\* SpecGate: the readiness gate in front of the /api routes: MaxRequests
\* requests, the health and ready probes and the initialization loop, with
\* SQLite in production, SQLite in development and Azure SQL.
GateEnvironments ==
  {Env(Unset, Unset, Unset, Unset, "production"),
   Env(Unset, Unset, Unset, Unset, "development"),
   Env("x", "x", "x", "x", "production")}

InitGate ==
  /\ adapter = "none"
  /\ alive = TRUE
  /\ table = <<>>
  /\ inTxn = FALSE
  /\ txnBackup = <<>>
  /\ queue = <<>>
  /\ calls = [c \in 1..1 |-> IdleCall]
  /\ nextId = 1
  /\ now = 0
  /\ env \in GateEnvironments
  /\ server = ServerFresh
  /\ editor = EditorClosed
  /\ http = HttpIdle
  /\ page = PageClosed

NextGate ==
  \/ \E writable \in BOOLEAN : verifyDataDirectoryIfNeeded(writable)
  \/ \E r \in Requests : ensureDatabaseReady(r)
  \/ \E r \in Requests, fatal \in BOOLEAN : TimerFires(r, fatal)
  \/ \E ok \in BOOLEAN : InitAttempt(ok)
  \/ Health
  \/ \E reachable \in BOOLEAN : ReadyRoute(reachable)

SpecGate == InitGate /\ [][NextGate]_vars

\* every pass of the loop settles, a queued request's timer fires unless it
\* is cleared, and a client that has a request to send sends it
SpecGateLive ==
  /\ SpecGate
  /\ WF_vars(\E ok \in BOOLEAN : InitAttempt(ok))
  /\ \A r \in Requests : WF_vars(\E fatal \in BOOLEAN : TimerFires(r, fatal))

\* SpecReplace: up to MaxCalls bulk replaces and list reads of two owners
\* are in flight at once; the rows of a payload are valid and have distinct
\* dates; the DELETE of a replace may fail.
ReplacePayloads ==
  {p \in ConcurrentPayloads :
     \A i, j \in 1..Len(p) : p[i].date = p[j].date => i = j}

InitReplace == InitWith(1..MaxCalls)

NextReplace ==
  \/ \E c \in Slots, u \in Users : GetCheckinsRoute(c, u)
  \/ \E c \in Slots, u \in Users, data \in ReplacePayloads : PutBulk(c, u, TRUE, data)
  \/ \E c \in Slots : Retire(c)
  \/ Sqlite
  \/ SqliteDeleteFails
  \/ \E c \in Slots : AzureGetCheckins(c)
  \/ AzureTx
  \/ \E c \in Slots : AzureDeadlock(c)

SpecReplace == InitReplace /\ [][NextReplace]_vars

\* SpecFrame: up to MaxCalls writes (create-or-update, bulk replace, delete
\* all) of two owners are in flight at once, all for the same day; a payload
\* has at most one row; the DELETE of a replace may fail.
FrameValues == {Ratings(1, 2, 3, 4, 5)}

FrameDates == {<<1, 31>>}

FramePayloads ==
  {p \in ReplacePayloads : Len(p) <= 1 /\ \A k \in 1..Len(p) : p[k].date \in FrameDates}

InitFrame == InitWith(1..MaxCalls)

NextFrame ==
  \/ \E c \in Slots, u \in Users, d \in FrameDates, v \in FrameValues :
       PostCheckins(c, u, d, v)
  \/ \E c \in Slots, u \in Users, data \in FramePayloads : PutBulk(c, u, TRUE, data)
  \/ \E c \in Slots, u \in Users : DeleteBulk(c, u)
  \/ \E c \in Slots : Retire(c)
  \/ Sqlite
  \/ SqliteDeleteFails
  \/ AzureWrites
  \/ AzureTx

SpecFrame == InitFrame /\ [][NextFrame]_vars

\* SpecPage: the check-in page of one user on the second of two days; the
\* user changes the date, moves the first slider, and the responses of the
\* server arrive in any order; the store holds no record or one of the
\* first day.
PageToday == <<2, 1>>

PageCategories == {"overall"}

SliderValues == {7}

InitPage ==
  /\ InitStore(1..1)
  /\ adapter = "sqlite"
  /\ env = EnvOf(adapter)
  /\ server = ServerReady
  /\ editor = EditorClosed
  /\ http = HttpIdle
  /\ page = PageMounted(PageToday)

NextPage ==
  \/ \E d \in Dates : SetDate(d)
  \/ \E category \in PageCategories, newValue \in SliderValues :
       handleSliderChange(category, newValue)
  \/ autoSave
  \/ \E last \in BOOLEAN : ClearSaveError(last)
  \/ \E i \in Tasks, ok \in BOOLEAN : Response(i, ok)

SpecPage == InitPage /\ [][NextPage]_vars

\* SpecRoutes: one request to an /api route on a server whose database is
\* ready: any of the five routes, with well-formed and ill-formed ids, dates
\* and ratings, on servers in three time zones.
UuidText ==
  <<"1", "2", "3", "e", "4", "5", "6", "7", "-", "e", "8", "9", "b", "-",
    "1", "2", "d", "3", "-", "A", "4", "5", "6", "-", "4", "2", "6", "6",
    "1", "4", "1", "7", "4", "0", "0", "0">>

UserIdTexts ==
  {UuidText, <<" ">> \o UuidText, <<"<", "b", ">">> \o UuidText,
   SubSeq(UuidText, 1, 35), <<"u", "1">>}

AfterTomorrow == <<"2", "0", "2", "4", "-", "0", "2", "-", "0", "2">>

NoSuchDay == <<"2", "0", "2", "4", "-", "1", "3", "-", "4", "5">>

RouteDateTexts ==
  DateTexts \cup BadDateTexts
    \cup {AfterTomorrow, NoSuchDay, Append(AfterTomorrow, " ")}

\* a rating of a request body: undefined, null, '5', 5, 1, 10, 0, 11, 1.5
JsRatings ==
  {JsUndefined, JsNull, JsString(Five), JsNumber(50), JsNumber(10),
   JsNumber(100), JsNumber(0), JsNumber(110), JsNumber(15)}

PostBody(userId, date, ratings) ==
  [k \in BodyKeys \cup {"isArray"} |->
     IF k = "isArray" THEN FALSE
     ELSE IF k = "userId" THEN userId
     ELSE IF k = "date" THEN date
     ELSE ratings[k]]

AllFives == [k \in RatingKeys |-> JsNumber(50)]

\* bodies that differ from a valid one in one rating, and any id and date
PostBodies ==
  {PostBody(u, d, [AllFives EXCEPT ![k] = v]) :
     u \in {JsString(UuidText)}, d \in {JsString(t) : t \in DateTexts},
     k \in RatingKeys, v \in JsRatings}
  \cup {PostBody(u, d, AllFives) :
          u \in {JsUndefined, JsString(<<>>)} \cup {JsString(t) : t \in UserIdTexts},
          d \in {JsUndefined} \cup {JsString(t) : t \in RouteDateTexts}}

TimeZones == {-8, 0, 2}

HttpRequests ==
  {HttpRequest("GET_LIST", JsString(u), JsUndefined, NoBody, tz) :
     u \in UserIdTexts, tz \in TimeZones}
  \cup {HttpRequest("GET_ONE", JsString(u), JsString(d), NoBody, tz) :
          u \in UserIdTexts, d \in RouteDateTexts, tz \in TimeZones}
  \cup {HttpRequest("PUT_BULK", JsString(u), JsUndefined,
                    [NoBody EXCEPT !.isArray = a], tz) :
          u \in UserIdTexts, a \in BOOLEAN, tz \in TimeZones}
  \cup {HttpRequest("DELETE_BULK", JsString(u), JsUndefined, NoBody, tz) :
          u \in UserIdTexts, tz \in TimeZones}
  \cup {HttpRequest("POST", JsUndefined, JsUndefined, b, tz) :
          b \in PostBodies, tz \in TimeZones}

InitRoutes == InitWith(1..1)

NextRoutes ==
  \/ \E h \in HttpRequests, over \in Quotas :
       HttpArrive([h EXCEPT !.over = over])
  \/ \E storeOk \in BOOLEAN : HttpLayer(storeOk)

SpecRoutes == InitRoutes /\ [][NextRoutes]_vars

----------------------------------------------------------------------------
(* Vocabulary of the properties *)

\* the records a reader finds stored: the committed rows
StoredRows ==
  IF adapter = "sqlite" THEN SqliteCommitted ELSE AzureCommitted(table, calls)

\* the adapter call of slot c ends in this step: its promise settles, or the
\* process exits under it
Settles(c) == calls[c].state = "pending" /\ calls'[c].state # "pending"

ResolvesAs(c, route) ==
  calls[c].route = route /\ Settles(c) /\ calls'[c].state = "resolved"

HasDuplicateDate(rows) ==
  \E i, j \in 1..Len(rows) : i < j /\ rows[i].date = rows[j].date

\* payload row k of call is stored in t under the id the call gave it
RowStored(t, call, k) ==
  /\ k <= Len(call.ids)
  /\ \E r \in Range(t) :
       /\ r.id = call.ids[k] /\ r.user_id = call.userId
       /\ r.date = Stored(call.rows[k].date)
       /\ ValuesOf(r) = call.rows[k].values

----------------------------------------------------------------------------
(* Properties of the storage contract *)

C2_UpsertThenRead ==
  [][\A c \in Slots :
       ResolvesAs(c, "POST")
         => LET got == GetOne(table', calls', calls[c].userId, calls[c].date)
            IN /\ got.user_id = calls[c].userId
               /\ got.date = calls[c].date
               /\ ValuesOf(got) = calls[c].values]_vars

\* an upsert over an existing record has resolved and the record read back
\* holds its ratings (the Azure row keeps its first id, which shows that a
\* record was there before)
C2_Witness ==
  \E c \in Slots :
    /\ calls[c].route = "POST" /\ calls[c].state = "resolved"
    /\ LET got == GetOne(table, calls, calls[c].userId, calls[c].date)
       IN /\ got.date = calls[c].date
          /\ ValuesOf(got) = calls[c].values
          /\ got.id \notin {0, calls[c].rec.id}

UniqueKeys(t) ==
  \A i, j \in 1..Len(t) :
    i < j => ~(t[i].user_id = t[j].user_id /\ t[i].date = t[j].date)

\* C3: the table never holds two records with the same (userId, date), and an
\* upsert that resolves leaves exactly one record for its key, holding its
\* ratings: of two upserts of one key the later write wins.
C3_OneRecordPerKey ==
  [][/\ UniqueKeys(table')
     /\ \A c \in Slots :
          ResolvesAs(c, "POST")
            => LET rows == KeyRows(table', calls[c].userId, Stored(calls[c].date))
               IN Len(rows) = 1 /\ ValuesOf(rows[1]) = calls[c].values]_vars

\* two upserts of one key with different ratings have both resolved and one
\* record is stored for the key
C3_Witness ==
  \E c1, c2 \in Slots :
    /\ c1 # c2
    /\ calls[c1].route = "POST" /\ calls[c1].state = "resolved"
    /\ calls[c2].route = "POST" /\ calls[c2].state = "resolved"
    /\ calls[c1].userId = calls[c2].userId /\ calls[c1].date = calls[c2].date
    /\ calls[c1].values # calls[c2].values
    /\ LET rows == KeyRows(table, calls[c1].userId, Stored(calls[c1].date))
       IN Len(rows) = 1 /\ ValuesOf(rows[1]) \in {calls[c1].values, calls[c2].values}

C5_FailedInsertRejects ==
  [][\A c \in Slots :
       (/\ calls[c].route = "PUT_BULK" /\ Settles(c)
        /\ \E k \in 1..Len(calls[c].rows) : ~RowStored(StoredRows', calls'[c], k))
         => calls'[c].state = "rejected" /\ calls'[c].status = 500]_vars

\* C6: every rating of every stored record is an integer from 1 to 10.
C6_StoredRatingsInRange ==
  \A r \in Range(StoredRows) : \A k \in RatingKeys : r[k] \in 1..10

\* C7: of two createOrUpdateCheckin calls for one (userId, date) that are in
\* flight together, both succeed: neither is rejected with a constraint error.
C7_ConcurrentUpsertsSucceed ==
  \A c1, c2 \in Slots :
    (/\ c1 # c2
     /\ calls[c1].route = "POST" /\ calls[c2].route = "POST"
     /\ calls[c1].userId = calls[c2].userId /\ calls[c1].date = calls[c2].date
     /\ calls[c1].state = "resolved")
      => calls[c2].state # "rejected"

\* C8: getCheckins(userId) returns the user's records, all of them and only
\* them, in ascending date order; for a user without records it returns the
\* empty list.
C8_ListAscending ==
  [][\A c \in Slots :
       ResolvesAs(c, "GET_LIST")
         => LET list == calls'[c].list
                own == OwnerRows(StoredRows, calls[c].userId)
            IN /\ \A i, j \in 1..Len(list) :
                    i < j => ~DateLess(list[j].date, list[i].date)
               /\ Len(list) = Len(own)
               /\ {r.id : r \in Range(list)} = {r.id : r \in Range(own)}
               /\ (own = <<>> => list = <<>>)]_vars

\* a list of two records has been returned whose order is not the order the
\* rows were stored in
C8_Witness ==
  \E c \in Slots :
    /\ calls[c].route = "GET_LIST" /\ calls[c].state = "resolved"
    /\ Len(calls[c].list) = 2
    /\ LET own == OwnerRows(StoredRows, calls[c].userId)
       IN Len(own) = 2 /\ calls[c].list[1].id = own[2].id

\* C9: the record createOrUpdateCheckin returns equals the record stored for
\* (userId, date) afterwards, its id included, in both adapters.
C9_ReturnedEqualsStored ==
  [][\A c \in Slots :
       ResolvesAs(c, "POST")
         => LET got == GetOne(table', calls', calls[c].userId, calls[c].date)
                rec == calls'[c].rec
            IN /\ got.id = rec.id
               /\ got.user_id = rec.user_id
               /\ got.date = rec.date
               /\ ValuesOf(got) = ValuesOf(rec)]_vars

\* C10: an upsert over an existing record leaves the record's created_at as
\* it was.
C10_OverwriteKeepsCreatedAt ==
  [][\A c \in Slots :
       LET before == KeyRows(StoredRows, calls[c].userId, Stored(calls[c].date))
           after == KeyRows(StoredRows', calls[c].userId, Stored(calls[c].date))
       IN (ResolvesAs(c, "POST") /\ before # <<>>)
            => (after # <<>> /\ after[1].created_at = before[1].created_at)]_vars

----------------------------------------------------------------------------
(* Properties of the Data Editor *)

\* the text of an integer: an optional sign and digits, nothing else
IsIntegerText(cell) ==
  LET t == Trim(cell)
      u == IF t # <<>> /\ Head(t) = "-" THEN Tail(t) ELSE t
  IN u # <<>> /\ \A i \in 1..Len(u) : IsDigit(u[i])

\* the rows the CSV format admits: as many columns as the header, a date
\* YYYY-MM-DD, five integers from 1 to 10
WellFormedLine(headers, line) ==
  /\ Len(line) = Len(headers)
  /\ DateFormatOk(CellOf(headers, line, HeaderDate))
  /\ \A f \in 1..5 :
       LET cell == CellOf(headers, line, RatingFields[f].header)
       IN IsIntegerText(cell) /\ ParseInt(cell).value \in 1..10

HeaderOk(text) == ExpectedHeaders \subseteq Range(SplitLines(text)[1])

DataLines(text) ==
  {i \in 2..Len(SplitLines(text)) : ~BlankLine(SplitLines(text)[i])}

\* C11: validateCSV accepts the text only if every non-empty data row has as
\* many columns as the header, a date YYYY-MM-DD and five ratings that are
\* integers from 1 to 10; it throws for any other non-empty row.
C11_ValidateCsvAcceptsOnlyIntegers ==
  [][(SaveData /\ HeaderOk(editor.csvData))
       => LET lines == SplitLines(editor.csvData)
          IN (editor'.phase = "sent")
               <=> \A i \in DataLines(editor.csvData) :
                     WellFormedLine(lines[1], lines[i])]_vars

\* a row validateCSV throws for
Rejected(headers, line) ==
  \/ Len(line) # Len(headers)
  \/ ~DateFormatOk(CellOf(headers, line, HeaderDate))
  \/ BadField(headers, line) # 0

C13_EmptyTextDeletesAll ==
  [][(SaveData /\ editor.csvData = EmptyText)
       => (editor'.phase = "sent" /\ editor'.request = <<>>)]_vars

----------------------------------------------------------------------------
(* Properties of the routes and of the server's life cycle *)

\* C14: getCheckin(userId, date) resolves to null when no record exists for
\* the key and GET /api/checkins/:userId/:date then answers 200 with a null
\* body; when a record exists it is returned with 200; an error status is
\* answered only when the adapter call has rejected.
C14_MissingRecordIsNull ==
  [][\A c \in Slots :
       (calls[c].route = "GET_ONE" /\ Settles(c))
         => LET key == KeyRows(StoredRows, calls[c].userId, Stored(calls[c].date))
                call == calls'[c]
            IN /\ (key = <<>>)
                    => (call.state = "resolved" /\ call.rec = NoRow /\ call.status = 200)
               /\ (key # <<>>)
                    => (call.state = "resolved" /\ call.rec.id = key[1].id
                        /\ call.status = 200)
               /\ (call.status # 200) => call.state = "rejected"]_vars

\* a lookup of a key without a record has been answered 200 with null while
\* the table holds records of other keys
C14_Witness ==
  \E c \in Slots :
    /\ calls[c].route = "GET_ONE" /\ calls[c].state = "resolved"
    /\ calls[c].rec = NoRow /\ calls[c].status = 200
    /\ StoredRows # <<>>
    /\ KeyRows(StoredRows, calls[c].userId, Stored(calls[c].date)) = <<>>

\* C15: GET /ready answers 200 only when isDbReady is true, the database is
\* set and the probe read succeeded; in every other case it answers 503.
C15_ReadyOnlyWhenProbeSucceeds ==
  [][(\E reachable \in BOOLEAN : ReadyRoute(reachable)) =>
       /\ server'.ready \in {200, 503}
       /\ server'.ready = 200 <=>
            (server.isDbReady /\ server.database = "set" /\ server'.probe)]_vars

\* /ready has answered 200 once and 503 after the store stopped answering
C15_Witness ==
  server.isDbReady /\ server.database = "set" /\ server.ready = 503

\* the four settings are all set and non-empty
AllAzureSettings(e) ==
  \A k \in {"AZURE_SQL_SERVER", "AZURE_SQL_DATABASE", "AZURE_SQL_USERNAME",
            "AZURE_SQL_PASSWORD"} : e[k] # Unset /\ e[k] # ""

\* C16: DatabaseFactory.create returns an AzureSQLAdapter exactly when the
\* four AZURE_SQL_* settings are all set and non-empty and an SQLiteAdapter
\* otherwise, and verifyDataDirectoryIfNeeded skips the /data check for
\* exactly the same environments.
C16_AzureExactlyWhenAllFourSet ==
  /\ server.database = "set" =>
       adapter = IF AllAzureSettings(env) THEN "azure" ELSE "sqlite"
  /\ server.checked # "no" =>
       (server.checked = "skipped" <=> AllAzureSettings(env))
  /\ (server.database = "set" /\ server.checked # "no") =>
       (server.checked = "skipped" <=> adapter = "azure")

\* the server and the database name are set, the password is empty: SQLite
C16_Witness ==
  /\ server.database = "set" /\ adapter = "sqlite"
  /\ server.checked = "verified"
  /\ env.AZURE_SQL_SERVER = "x" /\ env.AZURE_SQL_DATABASE = "x"
  /\ env.AZURE_SQL_PASSWORD = ""

\* C17: close() is idempotent: a second call on the same adapter completes
\* without error.
C17_SecondCloseSucceeds ==
  \A i \in 1..Len(server.closes) : server.closes[i] = "ok"

----------------------------------------------------------------------------
(* Properties of bulkReplaceCheckins under concurrency and failure *)

\* what a list or a payload says: the date and the ratings of each row
Content(rows) == {PayloadRow(r.date, r.values) : r \in Range(rows)}

ListContent(list) == {PayloadRow(r.date, ValuesOf(r)) : r \in Range(list)}

\* the list getCheckins(u) returns when no replace is in progress
CommittedList(u) ==
  IF adapter = "sqlite" THEN OrderByDate(OwnerRows(SqliteCommitted, u))
  ELSE GetList(table, calls, u)

\* the bulk replaces of owner u that have been called and not yet answered
Replacing(u) ==
  {o \in Slots : calls[o].route = "PUT_BULK" /\ calls[o].userId = u}

\* C18: a getCheckins(userId) that runs while bulkReplaceCheckins(userId,
\* rows) is in progress returns the complete set stored before the replace or
\* the complete new set, never an empty or partially replaced set.
C18_ReadSeesOldOrNew ==
  [][\A c \in Slots :
       (calls[c].route = "GET_LIST" /\ calls[c].state = "pending"
          /\ calls'[c].state = "resolved") =>
         LET u == calls[c].userId
             list == calls'[c].list
         IN \/ list = CommittedList(u)
            \/ \E o \in Replacing(u) :
                 /\ Len(list) = Len(calls[o].rows)
                 /\ ListContent(list) = Content(calls[o].rows)]_vars

\* a step that runs the ROLLBACK of call a while a transaction is open
RollsBack(a) ==
  /\ inTxn /\ ~inTxn'
  /\ \E i \in 1..Len(queue) :
       /\ queue[i].kind = "rollback" /\ queue[i].call = a
       /\ queue' = RemoveAt(queue, i)

\* the rows call o has inserted
InsertedBy(t, o) == {r \in Range(t) : r.id \in Range(calls[o].ids)}

\* C19: two concurrent bulkReplaceCheckins calls on one SQLiteAdapter each
\* run in their own transaction: the ROLLBACK of one call never undoes the
\* statements of the other, and a call that resolves has exactly its rows
\* stored for its owner.
C19_OwnTransaction ==
  [][adapter = "sqlite" =>
       \A a \in Slots :
         /\ RollsBack(a) =>
              \A o \in Slots \ {a} :
                calls[o].route = "PUT_BULK" =>
                  InsertedBy(table, o) \subseteq Range(table')
         /\ (calls[a].route = "PUT_BULK" /\ calls[a].state = "pending"
               /\ calls'[a].state = "resolved") =>
              /\ ~inTxn'
              /\ Range(OwnerRows(table', calls[a].userId)) = InsertedBy(table', a)
              /\ Len(OwnerRows(table', calls[a].userId)) = Len(calls[a].rows)]_vars

\* call c has been rejected by its failed DELETE and every statement it
\* scheduled has run
DeleteFailedAndDone(c) ==
  /\ adapter = "sqlite" /\ alive
  /\ calls[c].route = "PUT_BULK" /\ calls[c].err = "SQLITE_BUSY"
  /\ calls[c].pc = "done"
  /\ \A i \in 1..Len(queue) : queue[i].call # c
  /\ ~inTxn

\* C20: if the DELETE of SQLiteAdapter.bulkReplaceCheckins fails, the call
\* rejects and its transaction is rolled back: no payload row of the call is
\* stored.
C20_FailedDeleteStoresNothing ==
  \A c \in Slots : DeleteFailedAndDone(c) => InsertedBy(table, c) = {}

----------------------------------------------------------------------------
(* Properties of the readiness gate and of the initialization loop *)

\* next() is called for request r in this step
Dispatched(r) == server.requests[r] # "next" /\ server'.requests[r] = "next"

\* C21: no /api route handler runs while isDbReady is false:
\* ensureDatabaseReady calls next() only when isDbReady and database are
\* set, or from the drain that runs after isDbReady became true.
C21_HandlersRunOnlyWhenReady ==
  [][\A r \in Requests :
       Dispatched(r) => (server'.isDbReady /\ server'.database = "set")]_vars

\* a request that was queued during a failing pass has been dispatched by
\* the drain, another one directly
C21_Witness ==
  /\ server.retry >= 1
  /\ \A r \in Requests : server.requests[r] = "next"

\* C22: every request queued by ensureDatabaseReady eventually is dispatched
\* to its route handler or receives a 503 response, also when initialization
\* fails after all retries or the request's timer fires.
C22_QueuedRequestIsAnswered ==
  \A r \in Requests :
    (server.requests[r] = "queued") ~> (server.requests[r] \in {"next", "503"})

\* the waits of the claim: 1000 * 2^(k-1) ms after failed pass k
Backoff == <<1000, 2000, 4000, 8000, 16000, 32000, 64000, 128000, 256000, 512000>>

\* a pass of the loop fails in this step
PassFails ==
  server'.attempts = server.attempts + 1 /\ ~server'.isDbReady

\* C23: one run of the initialization loop makes at most maxRetries + 1 = 11
\* passes; after failed pass k (k = 1..10) it waits 1000 * 2^(k-1) ms; after
\* the 11th failure it sets isDbInitializing to false and ends; the loop
\* always terminates.
C23_LoopIsBounded ==
  /\ [][/\ server'.attempts <= 11
        /\ PassFails =>
             IF server'.attempts <= 10
             THEN /\ server'.isDbInitializing
                  /\ server'.delay = Backoff[server'.attempts]
             ELSE ~server'.isDbInitializing /\ server'.loops = 0]_vars
  /\ server.isDbInitializing ~> (~server.isDbInitializing \/ ~alive)

\* the loop has given up after its 11th pass
C23_Witness ==
  /\ server.attempts = 11 /\ server.delay = 512000
  /\ ~server.isDbInitializing /\ ~server.isDbReady

\* statement a occurs before statement b in ops
Before(ops, a, b) ==
  \E i, j \in 1..Len(ops) : i < j /\ ops[i] = a /\ ops[j] = b

\* C24: before isDbReady = true, initialization of the embedded backend has
\* created the schema and then performed a throwaway insert followed by a
\* delete on the checkins table.
C24_WriteTestBeforeReady ==
  (server.isDbReady /\ adapter = "sqlite") =>
    /\ Before(server.initOps, "CREATE TABLE IF NOT EXISTS", "INSERT")
    /\ Before(server.initOps, "INSERT", "DELETE")

----------------------------------------------------------------------------
(* Properties of the input validation *)

\* the request was within its quotas and has been answered
Answer(method) ==
  /\ http.method = method /\ http.over = "none"
  /\ http.layer = 0 /\ http.status # 0

\* C25: a request to an /api route with a :userId parameter whose userId is
\* not in UUID format, or whose :date is not YYYY-MM-DD, is answered 400 and
\* reaches no store operation (a request over a rate limit, which is
\* answered 429 before any validation, set aside).
C25_PathParametersAreValidated ==
  \A m \in {"GET_LIST", "GET_ONE", "PUT_BULK", "DELETE_BULK"} :
    (/\ Answer(m)
     /\ \/ ~UuidFormatOk(http.userId.text)
        \/ m = "GET_ONE" /\ ~DateFormatOk(http.date.text))
      => (http.status = 400 /\ http.ops = <<>>)

\* the calendar day of a well-formed date text that names a day
IsDay(text) == DateOfText(text)[1] \in 1..12 /\ DateOfText(text)[2] \in 1..31

AfterToday(text) ==
  LET d == DateOfText(text)
  IN IsDay(text)
     /\ (d[1] > LocalToday[1] \/ (d[1] = LocalToday[1] /\ d[2] > LocalToday[2]))

\* the body that the POST handler reads must be refused
MustRefuse(b) ==
  \/ Falsy(b.userId) \/ Falsy(b.date)
  \/ \E k \in RatingKeys : b[k].type = "undefined"
  \/ ~UuidFormatOk(b.userId.text)
  \/ ~DateFormatOk(b.date.text)
  \/ AfterToday(b.date.text)
  \/ \E k \in RatingKeys : ~IsRating(b[k])

\* C26: POST /api/checkins answers 400 and writes nothing when a required
\* field is missing, the userId is not a UUID, the date is not YYYY-MM-DD or
\* is after the end of today, or a rating is not an integer from 1 to 10;
\* otherwise it calls createOrUpdateCheckin exactly once and answers 201, or
\* 500 when the store fails.
C26_PostIsValidated ==
  Answer("POST") =>
    IF MustRefuse(http.body)
    THEN http.status = 400 /\ http.ops = <<>>
    ELSE http.ops = <<"createOrUpdateCheckin">> /\ http.status \in {201, 500}

----------------------------------------------------------------------------
(* Properties of the writes of different owners *)

\* the calls on whose behalf the step changes the store: the call of the
\* statement that leaves the queue, the call whose prepared statement runs,
\* the Azure call that moves on; when the process exits, every call that
\* still has a statement to run
Actors ==
  IF adapter = "azure" THEN {c \in Slots : calls'[c] # calls[c]}
  ELSE {queue[i].call : i \in {j \in 1..Len(queue) :
                                 alive' => queue' = RemoveAt(queue, j)}}
       \cup {c \in Slots : calls[c].pc = "stmt"
                            /\ (alive' => calls'[c].n # calls[c].n)}

\* C27: the records of an owner change only in steps of createOrUpdateCheckin,
\* bulkReplaceCheckins or deleteAllCheckins called for that owner: a call for
\* owner A leaves the records of every other owner as they are, whether it
\* succeeds, fails or is rolled back.
C27_OtherOwnersUnchanged ==
  [][\A u \in Users :
       OwnerRows(table', u) # OwnerRows(table, u)
         => \E c \in Actors : calls[c].userId = u]_vars

----------------------------------------------------------------------------
(* Properties of the initialization state *)

\* C28: at most one run of the initialization loop is in flight at any time,
\* also after an earlier run has given up; isDbReady and isDbInitializing are
\* never both true; once isDbReady is true it stays true.
C28_OneLoopAndReadyIsStable ==
  [][/\ server'.loops <= 1
     /\ ~(server'.isDbReady /\ server'.isDbInitializing)
     /\ server.isDbReady => server'.isDbReady]_vars

\* a second run of the loop has started after the first gave up
C28_Witness ==
  /\ server.loops = 1 /\ server.isDbInitializing
  /\ server.attempts = 0 /\ server.delay = 512000

\* the step is the start of the server, an answer of GET /health or an
\* answer of GET /ready
StartStep == server.checked = "no" /\ (server'.checked # "no" \/ ~alive')

HealthStep == server'.health # server.health

ReadyStep == server'.ready # server.ready \/ server'.probe # server.probe

\* C29: initialization is started only by a request under /api.  The start
\* of the server, GET /health and GET /ready leave isDbReady,
\* isDbInitializing and requestQueue as they are, and /ready answers 503 as
\* long as no /api request has arrived whose initialization has succeeded.
C29_OnlyApiRequestsStartInit ==
  [][/\ (StartStep \/ HealthStep \/ ReadyStep)
          => /\ server'.isDbReady = server.isDbReady
             /\ server'.isDbInitializing = server.isDbInitializing
             /\ server'.requestQueue = server.requestQueue
             /\ server'.loops = server.loops
     /\ (~server.isDbInitializing /\ server'.isDbInitializing)
          => \E r \in Requests :
               server.requests[r] = "none" /\ server'.requests[r] = "queued"
     /\ server'.isDbReady => \E r \in Requests : server'.requests[r] # "none"
     /\ (ReadyStep /\ ~server.isDbReady) => server'.ready = 503]_vars

\* the server has started and has answered /health and /ready, and no /api
\* request has arrived
C29_Witness ==
  /\ server.checked # "no" /\ server.health = 200 /\ server.ready = 503
  /\ \A r \in Requests : server.requests[r] = "none"
  /\ ~server.isDbInitializing /\ ~server.isDbReady /\ server.requestQueue = <<>>

----------------------------------------------------------------------------
(* Properties of the check-in page *)

\* no request of the page is in flight and no timer is pending
Settled(pg) ==
  /\ \A i \in Tasks : pg.tasks[i].kind = "none"
  /\ pg.autoSaveTimeout = NoTimer /\ ~pg.clearPending

\* what the page shows belongs to date d of store t: the record of d, or
\* else the values of the latest earlier record, or else all 5s
ShowsDate(pg, t, d) ==
  LET rows == KeyRows(t, PageUser, d)
      e == previousEntry(OwnerRows(t, PageUser), d)
  IN IF rows # <<>>
     THEN pg.existingEntryForDate = rows[1] /\ pg.values = ValuesOf(rows[1])
     ELSE /\ pg.existingEntryForDate = NoRow
          /\ pg.values = IF e # NoRow THEN ValuesOf(e) ELSE Fives

\* the step sends the POST of an auto-save
Posts(i) == page.tasks[i].kind = "none" /\ page'.tasks[i].kind = "save"

\* C30: for any interleaving of date changes, slider changes, the 1 s
\* auto-save timer and fetch responses: once all requests in flight and all
\* timers have settled, the slider values and existingEntryForDate shown are
\* those of the date now selected, and every auto-save POST carries the date
\* that was selected when the slider was moved.
C30_PageShowsSelectedDate ==
  [][/\ Settled(page') => ShowsDate(page', table', page'.date)
     /\ \A i \in Tasks :
          Posts(i) => page'.tasks[i].date = page.autoSaveTimeout.date
     /\ page'.autoSaveTimeout \notin {NoTimer, page.autoSaveTimeout}
          => page'.autoSaveTimeout.date = page.date]_vars

====
